---------------------------- MODULE Spec2Model ----------------------------
(***************************************************************************)
(* Real-time collaboration SDK: the operation algebra of the core package  *)
(* (text, list and map transformation and application), the document       *)
(* authority of the server (DocumentManager), the coordinator              *)
(* (CollaborationServer, MessageHandler, ClientManager, AuthService) and   *)
(* the web client session (CollabClient, CollabDocument).                  *)
(*                                                                         *)
(* Text values are sequences of one-character strings, list values are     *)
(* sequences of items, map values are functions from a set of keys.        *)
(***************************************************************************)
EXTENDS Integers, Sequences, FiniteSets, TLC

VARIABLES
    alg,          \* operation algebra harness: inputs and the two TP1 results
    persistence,  \* DocumentManager.persistenceAdapter is configured
    documents,    \* DocumentManager.documents: documentId -> DocumentState
    trimmed,      \* history: operations dropped from the head of each list
    lastApply,    \* history: the latest DocumentManager.applyOperation call
    clients,      \* ClientManager.clients: clientId -> connection
    documentClients, \* ClientManager.documentClients: documentId -> clientIds
    connections,  \* the ConnectedClient object of each connection
    authRequired, \* AuthService.config.required
    authenticatedClients, \* AuthService.authenticatedClients: clientId -> ClientInfo
    suspended,    \* server handlers waiting for a persistence call
    inbox,        \* client -> server messages not yet handled, per connection
    outbox,       \* every message the server sent, per connection, in order
    delivered,    \* how many messages of outbox the client has handled
    session       \* CollabClient and its CollabDocument, per client

algVars == <<alg>>
authorityVars == <<persistence, documents, trimmed, lastApply>>
coordinatorVars == <<clients, documentClients, connections,
                     authRequired, authenticatedClients, suspended>>
wireVars == <<inbox, outbox, delivered>>
vars == <<alg, persistence, documents, trimmed, lastApply, clients,
          documentClients, connections, authRequired, authenticatedClients, suspended,
          inbox, outbox, delivered, session>>

(***************************************************************************)
(* Bounds                                                                  *)
(***************************************************************************)
MaxLen == 2          \* longest text or list value drawn as an input
MaxTextLen == 1      \* longest text carried by a text-insert input
MaxDeleteLen == 3    \* longest text two concurrent deletes are drawn on
MaxBatch == 2        \* most sub-operations in a map-batch input

Chars == {"a", "b"}
Items == {"x", "y"}
Keys == {"k1", "k2"}
Values == {"v1", "v2"}
Timestamps == {100, 101}
Undefined == "undefined"

\* the order of the client identifiers under JavaScript's string comparison
StringOrder == [c1 |-> 1, c2 |-> 2, m1 |-> 3, m2 |-> 4]

Min(a, b) == IF a <= b THEN a ELSE b
Max(a, b) == IF a >= b THEN a ELSE b

SeqsUpTo(S, n) == UNION {[1..k -> S] : k \in 0..n}

(***************************************************************************)
(* JavaScript built-ins the code relies on                                 *)
(***************************************************************************)
\* String.prototype.substring(start, end): both ends clamped to [0, length],
\* swapped when start > end.
Substring(s, start, end) ==
    LET cs == Max(0, Min(start, Len(s)))
        ce == Max(0, Min(end, Len(s)))
    IN SubSeq(s, Min(cs, ce) + 1, Max(cs, ce))

\* Array.prototype.splice(start, deleteCount, ...items): a negative start
\* counts from the end, start and deleteCount are clamped to the array.
SpliceStart(arr, start) ==
    IF start < 0 THEN Max(Len(arr) + start, 0) ELSE Min(start, Len(arr))

SpliceCount(arr, start, deleteCount) ==
    Max(0, Min(deleteCount, Len(arr) - SpliceStart(arr, start)))

Splice(arr, start, deleteCount, items) ==
    LET s == SpliceStart(arr, start)
        n == SpliceCount(arr, start, deleteCount)
    IN SubSeq(arr, 1, s) \o items \o SubSeq(arr, s + n + 1, Len(arr))

\* the elements splice returns (the removed ones)
Spliced(arr, start, deleteCount) ==
    LET s == SpliceStart(arr, start)
        n == SpliceCount(arr, start, deleteCount)
    IN SubSeq(arr, s + 1, s + n)

\* arr[index] = item: an index at or beyond the length grows the array and
\* leaves holes, which read as undefined.
AssignIndex(arr, index, item) ==
    IF index < 0 THEN arr
    ELSE IF index < Len(arr) THEN [arr EXCEPT ![index + 1] = item]
    ELSE arr \o [i \in 1..(index - Len(arr)) |-> Undefined] \o <<item>>

(***************************************************************************)
(* Text operations (types/text-operations.ts)                              *)
(***************************************************************************)
createInsertOperation(id, clientId, baseVersion, position, text, timestamp) ==
    [id |-> id, clientId |-> clientId, baseVersion |-> baseVersion,
     type |-> "text-insert", position |-> position, text |-> text,
     timestamp |-> timestamp]

createDeleteOperation(id, clientId, baseVersion, position, length, timestamp) ==
    [id |-> id, clientId |-> clientId, baseVersion |-> baseVersion,
     type |-> "text-delete", position |-> position, length |-> length,
     timestamp |-> timestamp]

isInsertOperation(op) == op.type = "text-insert"
isDeleteOperation(op) == op.type = "text-delete"
isRetainOperation(op) == op.type = "text-retain"
isTextOperation(op) == op.type \in {"text-insert", "text-delete", "text-retain"}

Result(op, flag) == [operation |-> op, wasTransformed |-> flag]

(***************************************************************************)
(* algorithms/text-transform.ts                                            *)
(***************************************************************************)
transformInsertInsert(operationA, operationB) ==
    IF operationA.position <= operationB.position
    THEN Result(operationA, FALSE)
    ELSE Result([operationA EXCEPT !.position =
                    operationA.position + Len(operationB.text)], TRUE)

transformInsertDelete(operationA, operationB) ==
    IF operationA.position <= operationB.position
    THEN Result(operationA, FALSE)
    ELSE IF operationA.position >= operationB.position + operationB.length
    THEN Result([operationA EXCEPT !.position =
                    operationA.position - operationB.length], TRUE)
    ELSE Result([operationA EXCEPT !.position = operationB.position], TRUE)

transformDeleteInsert(operationA, operationB) ==
    IF operationB.position <= operationA.position
    THEN Result([operationA EXCEPT !.position =
                    operationA.position + Len(operationB.text)], TRUE)
    ELSE IF operationB.position >= operationA.position + operationA.length
    THEN Result(operationA, FALSE)
    ELSE Result([operationA EXCEPT !.length =
                    operationA.length + Len(operationB.text)], TRUE)

transformDeleteDeleteAtStart(operationA, operationB) ==
    LET aStart == operationA.position
        aEnd == operationA.position + operationA.length
        bStart == operationB.position
        bEnd == operationB.position + operationB.length
        overlapLength == Min(aEnd, bEnd) - Max(aStart, bStart)
        newLength == operationA.length - overlapLength
    IN IF bStart >= aEnd THEN Result(operationA, FALSE)
       ELSE IF bEnd <= aStart
       THEN Result([operationA EXCEPT !.position =
                       operationA.position - operationB.length], TRUE)
       ELSE IF overlapLength > 0
       THEN Result([operationA EXCEPT !.length = Max(newLength, 0)], TRUE)
       ELSE Result(operationA, FALSE)

transformDeleteDelete(operationA, operationB) ==
    LET aStart == operationA.position
        aEnd == operationA.position + operationA.length
        bStart == operationB.position
        bEnd == operationB.position + operationB.length
        overlapStart == Max(aStart, bStart)
        overlapEnd == Min(aEnd, bEnd)
        overlapLength == overlapEnd - overlapStart
        newLength == operationA.length - overlapLength
        newPosition == IF bStart < aStart
                       THEN aStart - Min(operationB.length, aStart - bStart)
                       ELSE aStart
    IN IF bStart >= aEnd THEN Result(operationA, FALSE)
       ELSE IF bEnd <= aStart
       THEN Result([operationA EXCEPT !.position =
                       operationA.position - operationB.length], TRUE)
       ELSE IF overlapLength > 0
       THEN IF newLength <= 0
            THEN Result([operationA EXCEPT !.position = newPosition,
                                           !.length = 0], TRUE)
            ELSE Result([operationA EXCEPT !.position = newPosition,
                                           !.length = newLength], TRUE)
       ELSE Result(operationA, FALSE)

transformTextOperation(operationA, operationB) ==
    IF isInsertOperation(operationA) /\ isInsertOperation(operationB)
    THEN transformInsertInsert(operationA, operationB)
    ELSE IF isInsertOperation(operationA) /\ isDeleteOperation(operationB)
    THEN transformInsertDelete(operationA, operationB)
    ELSE IF isDeleteOperation(operationA) /\ isInsertOperation(operationB)
    THEN transformDeleteInsert(operationA, operationB)
    ELSE IF isDeleteOperation(operationA) /\ isDeleteOperation(operationB)
    THEN transformDeleteDelete(operationA, operationB)
    ELSE Result(operationA, FALSE)

\* a merge that keeps only the first operation
mergeOperationsFirst(op1, op2) == op1

\* mergeOperations: the first operation with the texts concatenated or the
\* lengths summed
mergeOperations(op1, op2) ==
    IF isInsertOperation(op1) /\ isInsertOperation(op2)
    THEN [op1 EXCEPT !.text = op1.text \o op2.text]
    ELSE IF isDeleteOperation(op1) /\ isDeleteOperation(op2)
    THEN [op1 EXCEPT !.length = op1.length + op2.length]
    ELSE op1

canMergeOperations(op1, op2) ==
    IF op1.clientId # op2.clientId THEN FALSE
    ELSE IF isInsertOperation(op1) /\ isInsertOperation(op2)
    THEN op1.position + Len(op1.text) = op2.position
    ELSE IF isDeleteOperation(op1) /\ isDeleteOperation(op2)
    THEN op1.position = op2.position
    ELSE FALSE

\* the loop of composeTextOperations from operations[i] on, `current` being
\* the operation under construction
RECURSIVE composeFrom(_, _, _, _)
composeFrom(operations, i, current, result) ==
    IF i > Len(operations) THEN Append(result, current)
    ELSE IF canMergeOperations(current, operations[i])
    THEN composeFrom(operations, i + 1,
                     mergeOperations(current, operations[i]), result)
    ELSE composeFrom(operations, i + 1, operations[i],
                     Append(result, current))

composeTextOperations(operations) ==
    IF Len(operations) = 0 THEN <<>>
    ELSE IF Len(operations) = 1 THEN operations
    ELSE composeFrom(operations, 2, operations[1], <<>>)

(***************************************************************************)
(* SharedText.apply (types/shared-text.ts): the value after the operation  *)
(***************************************************************************)
SharedTextApply(value, operation) ==
    IF isInsertOperation(operation)
    THEN Substring(value, 0, operation.position) \o operation.text
         \o Substring(value, operation.position, Len(value))
    ELSE IF isDeleteOperation(operation)
    THEN Substring(value, 0, operation.position)
         \o Substring(value, operation.position + operation.length, Len(value))
    ELSE value

\* the version rule shared by the three apply methods
SharedVersionAfter(version, operation) ==
    IF operation.baseVersion >= version THEN operation.baseVersion + 1
    ELSE version

\* the argument checks of SharedText.insert and SharedText.delete
ValidTextOperations(value, clientId, ts) ==
    {createInsertOperation(clientId, clientId, 0, p, t, ts) :
        p \in 0..Len(value), t \in SeqsUpTo(Chars, MaxTextLen) \ {<<>>}}
    \cup
    {createDeleteOperation(clientId, clientId, 0, pl[1], pl[2], ts) :
        pl \in {q \in (0..Len(value)) \X (1..MaxLen) :
                    q[1] < Len(value) /\ q[1] + q[2] <= Len(value)}}

(***************************************************************************)
(* List operations (types/list-operations.ts)                              *)
(***************************************************************************)
createListInsertOperation(id, clientId, baseVersion, index, item, timestamp) ==
    [id |-> id, clientId |-> clientId, baseVersion |-> baseVersion,
     type |-> "list-insert", index |-> index, item |-> item,
     timestamp |-> timestamp]

createListDeleteOperation(id, clientId, baseVersion, index, count, timestamp) ==
    [id |-> id, clientId |-> clientId, baseVersion |-> baseVersion,
     type |-> "list-delete", index |-> index, count |-> count,
     timestamp |-> timestamp]

createListReplaceOperation(id, clientId, baseVersion, index, item, oldItem, timestamp) ==
    [id |-> id, clientId |-> clientId, baseVersion |-> baseVersion,
     type |-> "list-replace", index |-> index, item |-> item,
     oldItem |-> oldItem, timestamp |-> timestamp]

createListMoveOperation(id, clientId, baseVersion, index, targetIndex, timestamp) ==
    [id |-> id, clientId |-> clientId, baseVersion |-> baseVersion,
     type |-> "list-move", index |-> index, targetIndex |-> targetIndex,
     timestamp |-> timestamp]

isListInsertOperation(op) == op.type = "list-insert"
isListDeleteOperation(op) == op.type = "list-delete"
isListReplaceOperation(op) == op.type = "list-replace"
isListMoveOperation(op) == op.type = "list-move"

\* operation.count || 1 : a count of 0 (or a missing count) reads as 1
CountOrOne(op) == IF op.count = 0 THEN 1 ELSE op.count

\* (timestamp, clientId) tie-break used by the replace and map rules
Wins(operationA, operationB) ==
    \/ operationA.timestamp > operationB.timestamp
    \/ /\ operationA.timestamp = operationB.timestamp
       /\ StringOrder[operationA.clientId] > StringOrder[operationB.clientId]

(***************************************************************************)
(* algorithms/list-transform.ts                                            *)
(***************************************************************************)
transformListInsertInsert(operationA, operationB) ==
    IF operationA.index <= operationB.index
    THEN Result(operationA, FALSE)
    ELSE Result([operationA EXCEPT !.index = operationA.index + 1], TRUE)

transformListInsertDelete(operationA, operationB) ==
    LET deleteCount == CountOrOne(operationB)
    IN IF operationA.index <= operationB.index
       THEN Result(operationA, FALSE)
       ELSE IF operationA.index >= operationB.index + deleteCount
       THEN Result([operationA EXCEPT !.index =
                       operationA.index - deleteCount], TRUE)
       ELSE Result([operationA EXCEPT !.index = operationB.index], TRUE)

transformListDeleteInsert(operationA, operationB) ==
    IF operationB.index <= operationA.index
    THEN Result([operationA EXCEPT !.index = operationA.index + 1], TRUE)
    ELSE Result(operationA, FALSE)

transformListDeleteDelete(operationA, operationB) ==
    LET aCount == CountOrOne(operationA)
        bCount == CountOrOne(operationB)
        aStart == operationA.index
        aEnd == operationA.index + aCount
        bStart == operationB.index
        bEnd == operationB.index + bCount
        overlapStart == Max(aStart, bStart)
        overlapEnd == Min(aEnd, bEnd)
        overlapCount == overlapEnd - overlapStart
        newCount == aCount - overlapCount
        newIndex == IF bStart < aStart
                    THEN aStart - Min(bCount, aStart - bStart)
                    ELSE aStart
    IN IF bStart >= aEnd THEN Result(operationA, FALSE)
       ELSE IF bEnd <= aStart
       THEN Result([operationA EXCEPT !.index = operationA.index - bCount],
                   TRUE)
       ELSE IF overlapCount > 0
       THEN IF newCount <= 0
            THEN Result([operationA EXCEPT !.index = newIndex, !.count = 0],
                        TRUE)
            ELSE Result([operationA EXCEPT !.index = newIndex,
                                           !.count = newCount], TRUE)
       ELSE Result(operationA, FALSE)

transformReplace(operationA, operationB) ==
    IF isListInsertOperation(operationB)
    THEN IF operationB.index <= operationA.index
         THEN Result([operationA EXCEPT !.index = operationA.index + 1], TRUE)
         ELSE Result(operationA, FALSE)
    ELSE IF isListDeleteOperation(operationB)
    THEN LET deleteCount == CountOrOne(operationB)
         IN IF /\ operationA.index >= operationB.index
               /\ operationA.index < operationB.index + deleteCount
            THEN Result(operationA, FALSE)
            ELSE IF operationA.index >= operationB.index + deleteCount
            THEN Result([operationA EXCEPT !.index =
                            operationA.index - deleteCount], TRUE)
            ELSE Result(operationA, FALSE)
    ELSE IF /\ isListReplaceOperation(operationB)
            /\ operationB.index = operationA.index
    THEN IF Wins(operationA, operationB)
         THEN Result(operationA, FALSE)
         ELSE Result(operationA, FALSE)
    ELSE Result(operationA, FALSE)

transformAgainstReplace(operationA, operationB) == Result(operationA, FALSE)

transformMove(operationA, operationB) ==
    IF isListInsertOperation(operationB)
    THEN LET sourceIndex == IF operationB.index <= operationA.index
                            THEN operationA.index + 1 ELSE operationA.index
             targetIndex == IF operationB.index <= operationA.targetIndex
                            THEN operationA.targetIndex + 1
                            ELSE operationA.targetIndex
             wasTransformed == \/ operationB.index <= operationA.index
                               \/ operationB.index <= operationA.targetIndex
         IN IF wasTransformed
            THEN Result([operationA EXCEPT !.index = sourceIndex,
                                           !.targetIndex = targetIndex], TRUE)
            ELSE Result(operationA, FALSE)
    ELSE IF isListDeleteOperation(operationB)
    THEN LET deleteCount == CountOrOne(operationB)
             sourceDeleted == /\ operationA.index >= operationB.index
                              /\ operationA.index < operationB.index + deleteCount
             sourceAfter == operationA.index >= operationB.index + deleteCount
             sourceIndex == IF sourceAfter
                            THEN operationA.index - deleteCount
                            ELSE operationA.index
             targetAfter == operationA.targetIndex >=
                                operationB.index + deleteCount
             targetInside == operationA.targetIndex >= operationB.index
             targetIndex == IF targetAfter
                            THEN operationA.targetIndex - deleteCount
                            ELSE IF targetInside THEN operationB.index
                            ELSE operationA.targetIndex
             wasTransformed == sourceAfter \/ targetAfter \/ targetInside
         IN IF sourceDeleted THEN Result(operationA, FALSE)
            ELSE IF wasTransformed
            THEN Result([operationA EXCEPT !.index = sourceIndex,
                                           !.targetIndex = targetIndex], TRUE)
            ELSE Result(operationA, FALSE)
    ELSE Result(operationA, FALSE)

transformAgainstMove(operationA, operationB) ==
    LET sourceIndex == operationB.index
        targetIndex == operationB.targetIndex
        opIndex == operationA.index
    IN IF sourceIndex = targetIndex THEN Result(operationA, FALSE)
       ELSE IF sourceIndex < targetIndex
       THEN IF opIndex = sourceIndex
            THEN Result([operationA EXCEPT !.index = targetIndex], TRUE)
            ELSE IF opIndex > sourceIndex /\ opIndex <= targetIndex
            THEN Result([operationA EXCEPT !.index = opIndex - 1], TRUE)
            ELSE Result(operationA, FALSE)
       ELSE IF opIndex = sourceIndex
            THEN Result([operationA EXCEPT !.index = targetIndex], TRUE)
            ELSE IF opIndex >= targetIndex /\ opIndex < sourceIndex
            THEN Result([operationA EXCEPT !.index = opIndex + 1], TRUE)
            ELSE Result(operationA, FALSE)

transformListOperation(operationA, operationB) ==
    IF isListInsertOperation(operationA) /\ isListInsertOperation(operationB)
    THEN transformListInsertInsert(operationA, operationB)
    ELSE IF isListInsertOperation(operationA) /\ isListDeleteOperation(operationB)
    THEN transformListInsertDelete(operationA, operationB)
    ELSE IF isListDeleteOperation(operationA) /\ isListInsertOperation(operationB)
    THEN transformListDeleteInsert(operationA, operationB)
    ELSE IF isListDeleteOperation(operationA) /\ isListDeleteOperation(operationB)
    THEN transformListDeleteDelete(operationA, operationB)
    ELSE IF isListReplaceOperation(operationA)
    THEN transformReplace(operationA, operationB)
    ELSE IF isListReplaceOperation(operationB)
    THEN transformAgainstReplace(operationA, operationB)
    ELSE IF isListMoveOperation(operationA)
    THEN transformMove(operationA, operationB)
    ELSE IF isListMoveOperation(operationB)
    THEN transformAgainstMove(operationA, operationB)
    ELSE Result(operationA, FALSE)

(***************************************************************************)
(* SharedList.apply (types/shared-list.ts): the items after the operation  *)
(***************************************************************************)
SharedListApply(items, operation) ==
    IF isListInsertOperation(operation)
    THEN Splice(items, operation.index, 0, <<operation.item>>)
    ELSE IF isListDeleteOperation(operation)
    THEN Splice(items, operation.index, CountOrOne(operation), <<>>)
    ELSE IF isListReplaceOperation(operation)
    THEN AssignIndex(items, operation.index, operation.item)
    ELSE IF isListMoveOperation(operation)
    THEN LET removed == Spliced(items, operation.index, 1)
             movedItem == IF removed = <<>> THEN Undefined ELSE removed[1]
         IN Splice(Splice(items, operation.index, 1, <<>>),
                   operation.targetIndex, 0, <<movedItem>>)
    ELSE items

\* the argument checks of SharedList.insert, delete, replace and move
ValidListOperations(items, clientId, ts) ==
    {createListInsertOperation(clientId, clientId, 0, i, it, ts) :
        i \in 0..Len(items), it \in Items}
    \cup
    {createListDeleteOperation(clientId, clientId, 0, ic[1], ic[2], ts) :
        ic \in {q \in (0..Len(items)) \X (1..MaxLen) :
                    q[1] < Len(items) /\ q[1] + q[2] <= Len(items)}}
    \cup
    {createListReplaceOperation(clientId, clientId, 0, ii[1], ii[2],
                                items[ii[1] + 1], ts) :
        ii \in {q \in (0..Len(items)) \X Items : q[1] < Len(items)}}
    \cup
    {createListMoveOperation(clientId, clientId, 0, ft[1], ft[2], ts) :
        ft \in {q \in (0..Len(items)) \X (0..Len(items)) :
                    q[1] < Len(items) /\ q[2] < Len(items) /\ q[1] # q[2]}}

(***************************************************************************)
(* Map operations (types/map-operations.ts)                                *)
(***************************************************************************)
createMapSetOperation(id, clientId, baseVersion, key, value, previousValue, timestamp) ==
    [id |-> id, clientId |-> clientId, baseVersion |-> baseVersion,
     type |-> "map-set", key |-> key, value |-> value,
     previousValue |-> previousValue, timestamp |-> timestamp]

createMapDeleteOperation(id, clientId, baseVersion, key, previousValue, timestamp) ==
    [id |-> id, clientId |-> clientId, baseVersion |-> baseVersion,
     type |-> "map-delete", key |-> key, previousValue |-> previousValue,
     timestamp |-> timestamp]

createMapBatchOperation(id, clientId, baseVersion, operations, timestamp) ==
    [id |-> id, clientId |-> clientId, baseVersion |-> baseVersion,
     type |-> "map-batch", operations |-> operations, timestamp |-> timestamp]

isMapSetOperation(op) == op.type = "map-set"
isMapDeleteOperation(op) == op.type = "map-delete"
isMapBatchOperation(op) == op.type = "map-batch"

\* state[key], delete state[key] and state[key] = value on a plain object
MapGet(state, key) == IF key \in DOMAIN state THEN state[key] ELSE Undefined
MapRemove(state, key) == [k \in DOMAIN state \ {key} |-> state[k]]
MapPut(state, key, value) ==
    [k \in DOMAIN state \cup {key} |-> IF k = key THEN value ELSE state[k]]

(***************************************************************************)
(* algorithms/map-transform.ts                                             *)
(***************************************************************************)
transformSetSet(operationA, operationB) ==
    IF operationA.key # operationB.key THEN Result(operationA, FALSE)
    ELSE IF Wins(operationA, operationB)
    THEN Result([operationA EXCEPT !.previousValue = operationB.value], TRUE)
    ELSE Result(operationA, TRUE)

transformSetDelete(operationA, operationB) ==
    IF operationA.key # operationB.key THEN Result(operationA, FALSE)
    ELSE Result([operationA EXCEPT !.previousValue = Undefined], TRUE)

transformDeleteSet(operationA, operationB) ==
    IF operationA.key # operationB.key THEN Result(operationA, FALSE)
    ELSE Result([operationA EXCEPT !.previousValue = operationB.value], TRUE)

transformMapDeleteDelete(operationA, operationB) ==
    IF operationA.key # operationB.key THEN Result(operationA, FALSE)
    ELSE IF Wins(operationA, operationB) THEN Result(operationA, FALSE)
    ELSE Result(operationA, TRUE)

\* the rules for two operations neither of which is a batch
transformMapSimple(operationA, operationB) ==
    IF isMapSetOperation(operationA) /\ isMapSetOperation(operationB)
    THEN transformSetSet(operationA, operationB)
    ELSE IF isMapSetOperation(operationA) /\ isMapDeleteOperation(operationB)
    THEN transformSetDelete(operationA, operationB)
    ELSE IF isMapDeleteOperation(operationA) /\ isMapSetOperation(operationB)
    THEN transformDeleteSet(operationA, operationB)
    ELSE IF isMapDeleteOperation(operationA) /\ isMapDeleteOperation(operationB)
    THEN transformMapDeleteDelete(operationA, operationB)
    ELSE Result(operationA, FALSE)

\* transformAgainstBatch: fold A over the sub-operations of batch B in order
RECURSIVE transformAgainstBatchFrom(_, _, _, _)
transformAgainstBatchFrom(current, wasTransformed, subOps, i) ==
    IF i > Len(subOps) THEN Result(current, wasTransformed)
    ELSE LET r == transformMapSimple(current, subOps[i])
         IN transformAgainstBatchFrom(r.operation,
                wasTransformed \/ r.wasTransformed, subOps, i + 1)

transformAgainstBatch(operationA, operationB) ==
    transformAgainstBatchFrom(operationA, FALSE, operationB.operations, 1)

\* transformMapOperation applied to a sub-operation of a batch
transformMapSubOperation(subOp, operationB) ==
    IF isMapBatchOperation(operationB)
    THEN transformAgainstBatch(subOp, operationB)
    ELSE transformMapSimple(subOp, operationB)

transformBatchOperation(operationA, operationB) ==
    LET results == [i \in 1..Len(operationA.operations) |->
                       transformMapSubOperation(operationA.operations[i],
                                                operationB)]
        wasTransformed == \E i \in 1..Len(results) : results[i].wasTransformed
    IN IF wasTransformed
       THEN Result([operationA EXCEPT !.operations =
                       [i \in 1..Len(results) |-> results[i].operation]], TRUE)
       ELSE Result(operationA, FALSE)

transformMapOperation(operationA, operationB) ==
    IF isMapBatchOperation(operationA)
    THEN transformBatchOperation(operationA, operationB)
    ELSE IF isMapBatchOperation(operationB)
    THEN transformAgainstBatch(operationA, operationB)
    ELSE transformMapSimple(operationA, operationB)

\* applyMapOperation (algorithms/map-transform.ts)
applyMapSubOperation(state, subOp) ==
    IF isMapSetOperation(subOp) THEN MapPut(state, subOp.key, subOp.value)
    ELSE IF isMapDeleteOperation(subOp) THEN MapRemove(state, subOp.key)
    ELSE state

RECURSIVE applyMapSubOperations(_, _, _)
applyMapSubOperations(state, subOps, i) ==
    IF i > Len(subOps) THEN state
    ELSE applyMapSubOperations(applyMapSubOperation(state, subOps[i]),
                               subOps, i + 1)

applyMapOperation(state, operation) ==
    IF isMapBatchOperation(operation)
    THEN applyMapSubOperations(state, operation.operations, 1)
    ELSE applyMapSubOperation(state, operation)

\* what SharedMap.set, delete and batch construct on the value `state`
MapSubOperations(state, clientId, ts) ==
    {createMapSetOperation(clientId, clientId, 0, k, v, MapGet(state, k), ts) :
        k \in Keys, v \in Values}
    \cup
    {createMapDeleteOperation(clientId, clientId, 0, k, state[k], ts) :
        k \in DOMAIN state}

ValidMapOperations(state, clientId, ts) ==
    MapSubOperations(state, clientId, ts)
    \cup
    {createMapBatchOperation(clientId, clientId, 0, subOps, ts) :
        subOps \in {q \in SeqsUpTo(MapSubOperations(state, clientId, ts),
                                   MaxBatch) :
                       /\ Len(q) >= 1
                       /\ \A i, j \in 1..Len(q) : i # j => q[i].key # q[j].key}}

MapStates == UNION {[D -> Values] : D \in SUBSET Keys}

(***************************************************************************)
(* Server and client sessions: names, identifiers, messages                *)
(***************************************************************************)
MaxOps == 2          \* most local operations the session c1 issues
MaxPeerOps == 1      \* most local operations the session c2 issues
MaxApplied == 1002   \* most operations applied to the stand-alone authority
MaxInbound == 3      \* most arbitrary inbound operations given to the authority
MaxLosses == 1       \* most connections of one session the server sees close

ClientIds == {"c1", "c2"}     \* CollabClient.clientId of the two sessions
DocumentIds == {"d1"}

\* CollaborationServer.generateClientId: the identifier a connection carries
\* until the client declares its own
generateClientId == [c1 |-> "m1", c2 |-> "m2"]

\* generateOperationId: unique per client and call
generateOperationId(clientId, n) == <<clientId, n>>

\* Date.now() as stamped on the operations the sessions create
Now == 100

\* JavaScript Map.set / Map.delete / Map.has on a function with a finite domain
MapHas(m, k) == k \in DOMAIN m
EmptyMap == [k \in {} |-> 0]

\* epoch tells the successive ConnectedClient objects of one session apart
NoConnection ==
    [clientId |-> "none", documents |-> {}, open |-> FALSE, epoch |-> 0]

(***************************************************************************)
(* DocumentManager (services/document-manager.ts)                          *)
(***************************************************************************)
\* createNewDocument without a schema (JOIN_DOCUMENT from the web client
\* carries none): version 0, data '', no operations, no clients.  instance
\* tells DocumentState objects of one documentId apart.
createNewDocument(documentId, instance) ==
    [id |-> documentId, version |-> 0, data |-> <<>>, operations |-> <<>>,
     clients |-> {}, instance |-> instance]

\* transformOperationPair returns opA whatever opB is
transformOperationPair(opA, opB) == opA

\* document.operations.filter(op => op.baseVersion >= operation.baseVersion)
laterOperations(document, operation) ==
    SelectSeq(document.operations,
              LAMBDA op : op.baseVersion >= operation.baseVersion)

\* the loop of transformOperation over laterOperations[lo..hi], in order
\* (split in halves to keep the evaluation shallow)
RECURSIVE transformAgainstRange(_, _, _, _)
transformAgainstRange(transformedOperation, later, lo, hi) ==
    IF lo > hi THEN transformedOperation
    ELSE IF lo = hi THEN transformOperationPair(transformedOperation, later[lo])
    ELSE LET mid == (lo + hi) \div 2
             half == transformAgainstRange(transformedOperation, later, lo, mid)
         IN \* the first half is evaluated before the second is entered
            IF half = half
            THEN transformAgainstRange(half, later, mid + 1, hi)
            ELSE half

transformOperation(document, operation) ==
    LET later == laterOperations(document, operation)
    IN transformAgainstRange(operation, later, 1, Len(later))

\* applyOperationToData: the six operation types it knows, each guarded by the
\* JavaScript type of document.data ("string", "array" for Array.isArray,
\* "object" for a plain object); every other type falls through the switch
applyOperationToDataOf(typeOfData, data, operation) ==
    IF operation.type = "text-insert"
    THEN IF typeOfData = "string"
         THEN Substring(data, 0, operation.position) \o operation.text
              \o Substring(data, operation.position, Len(data))
         ELSE data
    ELSE IF operation.type = "text-delete"
    THEN IF typeOfData = "string"
         THEN Substring(data, 0, operation.position)
              \o Substring(data, operation.position + operation.length, Len(data))
         ELSE data
    ELSE IF operation.type = "list-insert"
    THEN IF typeOfData = "array"
         THEN Splice(data, operation.index, 0, <<operation.item>>)
         ELSE data
    ELSE IF operation.type = "list-delete"
    THEN IF typeOfData = "array"
         THEN Splice(data, operation.index, CountOrOne(operation), <<>>)
         ELSE data
    ELSE IF operation.type = "map-set"
    THEN IF typeOfData = "object"
         THEN MapPut(data, operation.key, operation.value)
         ELSE data
    ELSE IF operation.type = "map-delete"
    THEN IF typeOfData = "object"
         THEN MapRemove(data, operation.key)
         ELSE data
    ELSE data

\* a schema-less document holds a string
applyOperationToData(data, operation) ==
    applyOperationToDataOf("string", data, operation)

\* the high-water mark of document.operations and the length kept by the trim
OperationsHighWater == 1000
OperationsKept == 500

\* a slice(-OperationsKept) taken without looking at the length
trimOperationsAlways(operations) ==
    SubSeq(operations, Max(Len(operations) - OperationsKept, 0) + 1,
           Len(operations))

\* document.operations.slice(-OperationsKept) once the list is too long
trimOperations(operations) ==
    IF Len(operations) > OperationsHighWater
    THEN SubSeq(operations, Max(Len(operations) - OperationsKept, 0) + 1,
                Len(operations))
    ELSE operations

\* applyOperationToDocument: rewrite baseVersion, push, apply, version++, trim
applyOperationToDocument(document, operation) ==
    LET stored == [operation EXCEPT !.baseVersion = document.version]
    IN [document EXCEPT
          !.operations = trimOperations(Append(document.operations, stored)),
          !.data = applyOperationToData(document.data, stored),
          !.version = document.version + 1]

\* the operations a trim drops from the head of the list (history variable)
trimmedBy(document, operation) ==
    Len(document.operations) + 1
        - Len(applyOperationToDocument(document, operation).operations)

\* the synchronous head of DocumentManager.applyOperation: transform against
\* the later operations, then applyOperationToDocument
applyOperationHead(document, operation) ==
    applyOperationToDocument(document, transformOperation(document, operation))

NoApply == [documentId |-> "none"]

\* what one applyOperation call saw and did (history); retainedFrom is the
\* baseVersion of the oldest operation the list still held, storedAfter the
\* number of operations the call pushed on the list
ApplyRecord(document, operation) ==
    [documentId |-> document.id,
     inbound |-> operation,
     later |-> laterOperations(document, operation),
     versionBefore |-> document.version,
     retainedFrom |-> document.version - Len(document.operations),
     dataBefore |-> document.data,
     applied |-> [transformOperation(document, operation)
                    EXCEPT !.baseVersion = document.version],
     dataAfter |-> applyOperationHead(document, operation).data,
     versionAfter |-> applyOperationHead(document, operation).version,
     storedAfter |-> Len(applyOperationHead(document, operation).operations)
                        + trimmedBy(document, operation)
                        - Len(document.operations)]

(***************************************************************************)
(* ClientManager (services/client-manager.ts).  Its state is passed as a   *)
(* record [clients, documentClients, connections].                         *)
(***************************************************************************)
ClientManagerState ==
    [clients |-> clients, documentClients |-> documentClients,
     connections |-> connections]

addClient(cm, c) ==
    [cm EXCEPT !.clients = MapPut(@, cm.connections[c].clientId, c)]

cmRemoveClientFromDocument(cm, documentId, clientId) ==
    LET cm1 == IF MapHas(cm.clients, clientId)
               THEN [cm EXCEPT !.connections[cm.clients[clientId]].documents =
                                   @ \ {documentId}]
               ELSE cm
    IN IF MapHas(cm1.documentClients, documentId)
       THEN LET documentClientSet == cm1.documentClients[documentId] \ {clientId}
            IN IF documentClientSet = {}
               THEN [cm1 EXCEPT !.documentClients = MapRemove(@, documentId)]
               ELSE [cm1 EXCEPT !.documentClients[documentId] = documentClientSet]
       ELSE cm1

RECURSIVE removeFromDocuments(_, _, _)
removeFromDocuments(cm, documentIds, clientId) ==
    IF documentIds = {} THEN cm
    ELSE LET documentId == CHOOSE d \in documentIds : TRUE
         IN removeFromDocuments(
                cmRemoveClientFromDocument(cm, documentId, clientId),
                documentIds \ {documentId}, clientId)

removeClient(cm, clientId) ==
    IF ~MapHas(cm.clients, clientId) THEN cm
    ELSE LET cm1 == removeFromDocuments(
                        cm, cm.connections[cm.clients[clientId]].documents,
                        clientId)
         IN [cm1 EXCEPT !.clients = MapRemove(@, clientId)]

cmAddClientToDocument(cm, documentId, clientId) ==
    IF ~MapHas(cm.clients, clientId) THEN cm
    ELSE [cm EXCEPT
            !.documentClients =
                MapPut(@, documentId,
                       (IF MapHas(@, documentId) THEN @[documentId] ELSE {})
                           \cup {clientId}),
            !.connections[cm.clients[clientId]].documents = @ \cup {documentId}]

\* a membership check that only looks the client up
isClientInDocumentAnywhere(cm, clientId, documentId) ==
    MapHas(cm.clients, clientId)

isClientInDocument(cm, clientId, documentId) ==
    /\ MapHas(cm.clients, clientId)
    /\ documentId \in cm.connections[cm.clients[clientId]].documents

\* the connections getClientsInDocument returns, as the clientIds that lead
\* to them
getClientsInDocument(cm, documentId) ==
    IF MapHas(cm.documentClients, documentId)
    THEN {id \in cm.documentClients[documentId] : MapHas(cm.clients, id)}
    ELSE {}

(***************************************************************************)
(* AuthService (services/auth-service.ts).  A ClientInfo is kept as its    *)
(* permissions array, if it has one.                                       *)
(***************************************************************************)
\* what a token is worth to verifyJWT: a payload without a permissions array
\* (the default ['read', 'edit'] applies), a payload that grants 'read' only,
\* or a token that does not verify
Tokens == {"editor", "reader", "bad"}

NoClientInfo == [isNull |-> TRUE, hasPermissions |-> FALSE, permissions |-> {}]

ClientInfo(hasPermissions, permissions) ==
    [isNull |-> FALSE, hasPermissions |-> hasPermissions,
     permissions |-> permissions]

verifyJWT(token) ==
    IF token = "editor" THEN ClientInfo(TRUE, {"read", "edit"})
    ELSE IF token = "reader" THEN ClientInfo(TRUE, {"read"})
    ELSE NoClientInfo

\* authenticateClient: the ClientInfo it registers, or null
authenticateClient(required, token) ==
    IF ~required THEN ClientInfo(FALSE, {})
    ELSE IF token = Undefined THEN NoClientInfo
    ELSE verifyJWT(token)

\* `edit:${documentId}`
EditPermission == [d1 |-> "edit:d1"]

isClientAuthenticated(auth, clientId) == MapHas(auth, clientId)
canAccessDocument(auth, clientId) == isClientAuthenticated(auth, clientId)
\* checkPermission: a ClientInfo without a permissions array is allowed
\* everything; otherwise the permission or 'admin' must be listed
checkPermission(auth, clientId, permission) ==
    /\ MapHas(auth, clientId)
    /\ \/ ~auth[clientId].hasPermissions
       \/ permission \in auth[clientId].permissions
       \/ "admin" \in auth[clientId].permissions
canEditDocument(auth, clientId, documentId) ==
    /\ canAccessDocument(auth, clientId)
    /\ \/ checkPermission(auth, clientId, "edit")
       \/ checkPermission(auth, clientId, EditPermission[documentId])

(***************************************************************************)
(* Messages                                                                *)
(***************************************************************************)
AuthSuccess == [type |-> "auth_success"]
AuthFailed == [type |-> "auth_failed"]
ErrorMessage(code) == [type |-> "error", code |-> code]
DocumentJoined(document) ==
    [type |-> "document_joined", documentId |-> document.id,
     version |-> document.version, state |-> document.data]
UserJoined(documentId, clientId) ==
    [type |-> "user_joined", documentId |-> documentId, user |-> clientId]
\* the message the 'operationApplied' listener of the server broadcasts
OperationBroadcast(documentId, operation) ==
    [type |-> "operation_applied", documentId |-> documentId,
     operation |-> operation]
\* the acknowledgement handleOperation sends to the originator
OperationAck(operationId, version) ==
    [type |-> "operation_applied", operationId |-> operationId,
     version |-> version]

isBroadcast(m) == m.type = "operation_applied" /\ "operation" \in DOMAIN m
isAck(m) == m.type = "operation_applied" /\ "operationId" \in DOMAIN m

\* socket.send when socket.readyState is OPEN
socketSend(out, open, c, message) ==
    IF open THEN [out EXCEPT ![c] = Append(@, message)] ELSE out

\* sendMessage / sendToClient: written only to an open socket
sendMessage(out, cm, c, message) ==
    socketSend(out, cm.connections[c].open, c, message)

\* the ConnectedClient object a waiting handler holds still has an open
\* socket: it is the current object of the session and was not closed
Live(h) ==
    connections[h.conn].open /\ connections[h.conn].epoch = h.epoch

RECURSIVE AppendTimes(_, _, _)
AppendTimes(q, message, n) ==
    IF n = 0 THEN q ELSE AppendTimes(Append(q, message), message, n - 1)

\* CollaborationServer.broadcastToDocument: one send per clientId of
\* document.clients that ClientManager.getClient resolves
serverBroadcastToDocument(out, docs, cm, documentId, message, excludeClientId) ==
    IF ~MapHas(docs, documentId) THEN out
    ELSE [c \in ClientIds |->
            LET targets == {id \in docs[documentId].clients :
                               /\ id # excludeClientId
                               /\ MapHas(cm.clients, id)
                               /\ cm.clients[id] = c}
            IN IF cm.connections[c].open
               THEN AppendTimes(out[c], message, Cardinality(targets))
               ELSE out[c]]

\* MessageHandler.broadcastToDocument: one send per connection that
\* ClientManager.getClientsInDocument returns, except those whose clientId
\* is excluded
handlerBroadcastToDocument(out, cm, documentId, message, excludeClientId) ==
    [c \in ClientIds |->
        LET targets == {id \in getClientsInDocument(cm, documentId) :
                           /\ cm.clients[id] = c
                           /\ cm.connections[c].clientId # excludeClientId}
        IN IF cm.connections[c].open
           THEN AppendTimes(out[c], message, Cardinality(targets))
           ELSE out[c]]

NoOperation == [type |-> "none"]
AlgIdle == [kind |-> "idle", pc |-> "idle", val |-> <<>>,
            A |-> NoOperation, B |-> NoOperation, ab |-> <<>>, ba |-> <<>>]

(***************************************************************************)
(* Initial values                                                          *)
(***************************************************************************)
NewSession ==
    [clientId |-> Undefined, token |-> Undefined, connectionState |-> "disconnected", authenticating |-> FALSE,
     open |-> FALSE, isJoined |-> FALSE, value |-> <<>>, version |-> 0,
     sharedVersion |-> 0, pendingOperations |-> <<>>, applied |-> <<>>,
     issued |-> 0, transportConnected |-> FALSE, reconnectAttempts |-> 0,
     reconnectTimer |-> FALSE, joinSent |-> FALSE, wsConnecting |-> FALSE,
     isClosing |-> FALSE, strayTimers |-> 0, disconnectCalled |-> FALSE]

AuthorityInit ==
    /\ documents = EmptyMap
    /\ trimmed = [d \in DocumentIds |-> 0]
    /\ lastApply = NoApply

CoordinatorInit ==
    /\ clients = EmptyMap
    /\ documentClients = EmptyMap
    /\ connections = [c \in ClientIds |-> NoConnection]
    /\ authenticatedClients = EmptyMap
    /\ suspended = {}

WireInit ==
    /\ inbox = [c \in ClientIds |-> <<>>]
    /\ outbox = [c \in ClientIds |-> <<>>]
    /\ delivered = [c \in ClientIds |-> 0]

\* each session is configured with its own clientId and no token
SessionInit ==
    session = [c \in ClientIds |-> [NewSession EXCEPT !.clientId = c]]

\* no server and no client session: only the operation algebra is exercised
ProtocolIdle ==
    /\ persistence = FALSE
    /\ authRequired = FALSE
    /\ AuthorityInit /\ CoordinatorInit /\ WireInit /\ SessionInit

(***************************************************************************)
(* Server handlers (server.ts, services/message-handler.ts).  A handler    *)
(* runs from the arrival of its message to its end or to its next wait for *)
(* the persistence adapter; a waiting handler is kept in suspended.        *)
(***************************************************************************)
SetClientManager(cm) ==
    /\ clients' = cm.clients
    /\ documentClients' = cm.documentClients
    /\ connections' = cm.connections

Receives(c, type) ==
    connections[c].open /\ inbox[c] # <<>> /\ Head(inbox[c]).type = type

\* handleAuthenticate: re-key the connection under the declared clientId,
\* then authenticateClient; a ClientInfo is registered under that clientId
\* and answered with AUTH_SUCCESS, null is answered with AUTH_FAILED
HandleAuthenticate(c) ==
    /\ Receives(c, "authenticate")
    /\ LET message == Head(inbox[c])
           cm0 == ClientManagerState
           cm1 == IF message.clientId # cm0.connections[c].clientId
                  THEN LET removed == removeClient(cm0, cm0.connections[c].clientId)
                       IN addClient([removed EXCEPT
                              !.connections[c].clientId = message.clientId], c)
                  ELSE cm0
           clientInfo == authenticateClient(authRequired, message.token)
       IN /\ SetClientManager(cm1)
          /\ IF ~clientInfo.isNull
             THEN /\ authenticatedClients' =
                         MapPut(authenticatedClients,
                                cm1.connections[c].clientId, clientInfo)
                  /\ outbox' = sendMessage(outbox, cm1, c, AuthSuccess)
             ELSE /\ outbox' = sendMessage(outbox, cm1, c, AuthFailed)
                  /\ UNCHANGED authenticatedClients
    /\ inbox' = [inbox EXCEPT ![c] = Tail(@)]
    /\ UNCHANGED <<alg, authorityVars, authRequired, suspended, delivered,
                   session>>

\* the DocumentState object a new createNewDocument call would make
nextInstance(docs, documentId) ==
    IF MapHas(docs, documentId) THEN docs[documentId].instance + 1 ELSE 1

\* handleJoinDocument after getOrCreateDocument returned `document`, which is
\* the entry of docs: both managers record the clientId of the handler's
\* client object, DOCUMENT_JOINED goes to its socket if that is open and
\* USER_JOINED to the others
JoinTail(c, clientId, open, documentId, docs, cm, out) ==
    LET cm1 == cmAddClientToDocument(cm, documentId, clientId)
        out1 == socketSend(out, open, c, DocumentJoined(docs[documentId]))
    IN /\ documents' = [docs EXCEPT ![documentId].clients = @ \cup {clientId}]
       /\ SetClientManager(cm1)
       /\ outbox' = handlerBroadcastToDocument(
                        out1, cm1, documentId,
                        UserJoined(documentId, clientId), clientId)

HandleJoinDocument(c) ==
    /\ Receives(c, "join_document")
    /\ inbox' = [inbox EXCEPT ![c] = Tail(@)]
    /\ LET documentId == Head(inbox[c]).documentId
           cm == ClientManagerState
           clientId == cm.connections[c].clientId
       IN IF authRequired /\ ~isClientAuthenticated(authenticatedClients, clientId)
          THEN /\ outbox' = sendMessage(outbox, cm, c,
                                        ErrorMessage("UNAUTHORIZED"))
               /\ UNCHANGED <<documents, coordinatorVars>>
          ELSE IF ~canAccessDocument(authenticatedClients, clientId)
          THEN /\ outbox' = sendMessage(outbox, cm, c, ErrorMessage("FORBIDDEN"))
               /\ UNCHANGED <<documents, coordinatorVars>>
          ELSE IF ~MapHas(documents, documentId) /\ persistence
          THEN \* getOrCreateDocument waits for persistenceAdapter.loadDocument
               /\ suspended' = suspended \cup
                      {[kind |-> "join", conn |-> c, documentId |-> documentId,
                        clientId |-> clientId,
                        epoch |-> cm.connections[c].epoch]}
               /\ UNCHANGED <<documents, clients, documentClients, connections,
                              authRequired, authenticatedClients, outbox>>
          ELSE /\ JoinTail(c, clientId, TRUE, documentId,
                     IF MapHas(documents, documentId) THEN documents
                     ELSE MapPut(documents, documentId,
                                 createNewDocument(documentId, 1)),
                     cm, outbox)
               /\ UNCHANGED <<authRequired, authenticatedClients, suspended>>
    /\ UNCHANGED <<alg, persistence, trimmed, lastApply, delivered, session>>

\* an operation handler waiting on the DocumentState object that documents.set
\* is about to replace keeps that object: its version stays what it is now
detach(h, docs) ==
    IF h.kind = "operation" /\ ~h.detached /\ MapHas(docs, h.documentId)
    THEN [h EXCEPT !.detached = TRUE, !.version = docs[h.documentId].version]
    ELSE h

\* loadDocument settled: with nothing stored getOrCreateDocument creates the
\* document and sets it in the map, whatever the map holds by now; a
\* rejection ends handleJoinDocument with SERVER_ERROR
JoinResume(h, resolved) ==
    /\ h \in suspended /\ h.kind = "join"
    /\ IF resolved
       THEN /\ JoinTail(h.conn, h.clientId, Live(h), h.documentId,
                  MapPut(documents, h.documentId,
                         createNewDocument(h.documentId,
                             nextInstance(documents, h.documentId))),
                  ClientManagerState, outbox)
            /\ suspended' = {detach(g, documents) : g \in suspended \ {h}}
       ELSE /\ outbox' = socketSend(outbox, Live(h), h.conn,
                                    ErrorMessage("SERVER_ERROR"))
            /\ suspended' = suspended \ {h}
            /\ UNCHANGED <<documents, clients, documentClients, connections>>
    /\ UNCHANGED <<alg, persistence, trimmed, lastApply, authRequired, authenticatedClients,
                   inbox, delivered, session>>

\* the tail of applyOperation and of handleOperation: the 'operationApplied'
\* listener broadcasts to document.clients, then applyOperation returns
\* document.version, which handleOperation acknowledges to the originator
OperationTail(c, open, documentId, operation, docs, version, out) ==
    LET cm == ClientManagerState
        out1 == serverBroadcastToDocument(
                    out, docs, cm, documentId,
                    OperationBroadcast(documentId, operation), Undefined)
    IN outbox' = socketSend(out1, open, c, OperationAck(operation.id, version))

HandleOperation(c) ==
    /\ Receives(c, "operation")
    /\ inbox' = [inbox EXCEPT ![c] = Tail(@)]
    /\ LET message == Head(inbox[c])
           documentId == message.documentId
           cm == ClientManagerState
           clientId == cm.connections[c].clientId
       IN IF \/ ~isClientInDocument(cm, clientId, documentId)
             \/ ~canEditDocument(authenticatedClients, clientId, documentId)
          THEN /\ outbox' = sendMessage(outbox, cm, c, ErrorMessage("FORBIDDEN"))
               /\ UNCHANGED <<documents, trimmed, lastApply, suspended>>
          ELSE IF ~MapHas(documents, documentId)
          THEN /\ outbox' = sendMessage(outbox, cm, c,
                                        ErrorMessage("INVALID_OPERATION"))
               /\ UNCHANGED <<documents, trimmed, lastApply, suspended>>
          ELSE LET document == documents[documentId]
                   applied == applyOperationHead(document, message.operation)
                   stored == ApplyRecord(document, message.operation).applied
               IN /\ documents' = [documents EXCEPT ![documentId] = applied]
                  /\ trimmed' = [trimmed EXCEPT ![documentId] =
                                    @ + trimmedBy(document, message.operation)]
                  /\ lastApply' = ApplyRecord(document, message.operation)
                  /\ IF persistence
                     THEN /\ suspended' = suspended \cup
                                 {[kind |-> "operation", conn |-> c,
                                   documentId |-> documentId,
                                   operation |-> stored,
                                   await |-> "saveOperation",
                                   detached |-> FALSE, version |-> 0,
                                   epoch |-> cm.connections[c].epoch]}
                          /\ UNCHANGED outbox
                     ELSE /\ OperationTail(c, TRUE, documentId, stored,
                                 documents', applied.version, outbox)
                          /\ UNCHANGED suspended
    /\ UNCHANGED <<alg, persistence, clients, documentClients, connections,
                   authRequired, authenticatedClients, delivered, session>>

\* saveOperation settled: saveDocument is called next; a rejection ends
\* handleOperation with INVALID_OPERATION and nothing is broadcast
OperationSaved(h, saved) ==
    /\ h \in suspended /\ h.kind = "operation" /\ h.await = "saveOperation"
    /\ IF saved
       THEN /\ suspended' = (suspended \ {h}) \cup
                                {[h EXCEPT !.await = "saveDocument"]}
            /\ UNCHANGED outbox
       ELSE /\ suspended' = suspended \ {h}
            /\ outbox' = socketSend(outbox, Live(h), h.conn,
                                    ErrorMessage("INVALID_OPERATION"))
    /\ UNCHANGED <<alg, authorityVars, clients, documentClients, connections,
                   authRequired, authenticatedClients, inbox, delivered, session>>

\* saveDocument settled: the events are emitted and the version the handler's
\* DocumentState object has by now is acknowledged
DocumentSaved(h, saved) ==
    /\ h \in suspended /\ h.kind = "operation" /\ h.await = "saveDocument"
    /\ suspended' = suspended \ {h}
    /\ IF saved
       THEN OperationTail(h.conn, Live(h), h.documentId, h.operation, documents,
                IF h.detached THEN h.version
                ELSE documents[h.documentId].version,
                outbox)
       ELSE outbox' = socketSend(outbox, Live(h), h.conn,
                                 ErrorMessage("INVALID_OPERATION"))
    /\ UNCHANGED <<alg, authorityVars, clients, documentClients, connections,
                   authRequired, authenticatedClients, inbox, delivered, session>>

(***************************************************************************)
(* Web client (client-web: CollabClient, CollabDocument)                   *)
(***************************************************************************)
\* how many operations each session issues, and the character it types
OperationBudget == [c1 |-> MaxOps, c2 |-> MaxPeerOps]
LocalChar == [c1 |-> "a", c2 |-> "b"]

\* the operations a session builds on its current text: the checks of
\* SharedText.insert / delete, a fresh id, and as baseVersion either
\* CollabDocument.currentVersion or the version of the SharedText
LocalOperations(c) ==
    LET s == session[c]
    IN {[op EXCEPT !.id = generateOperationId(c, s.issued + 1),
                   !.baseVersion = b] :
           op \in {o \in ValidTextOperations(s.value, s.clientId, Now) :
                      isInsertOperation(o) => o.text = <<LocalChar[c]>>},
           b \in {s.version, s.sharedVersion}}

\* config.reconnection.attempts
ReconnectionAttempts == 5

\* CollabClient.scheduleReconnect: ERROR once the attempts are used up,
\* otherwise RECONNECTING and a new timer, whose id replaces the one in
\* this.reconnectTimer: a timer that was pending stays pending, and nothing
\* holds its id any more
scheduleReconnect(s) ==
    IF s.reconnectAttempts >= ReconnectionAttempts
    THEN [s EXCEPT !.connectionState = "error"]
    ELSE [s EXCEPT !.connectionState = "reconnecting", !.reconnectTimer = TRUE,
                   !.strayTimers = IF s.reconnectTimer THEN @ + 1 ELSE @]

\* WebSocketTransport.connect refuses: its state is CONNECTING or CONNECTED
transportBusy(s) ==
    s.transportConnected \/ (s.wsConnecting /\ ~s.isClosing)

\* the application calls CollabClient.connect: the transport starts
\* connecting.  An application that called disconnect() does not connect
\* again.
Connect(c) ==
    /\ session[c].connectionState = "disconnected"
    /\ ~session[c].disconnectCalled
    /\ session' = [session EXCEPT ![c].connectionState = "connecting",
                                  ![c].wsConnecting = TRUE]
    /\ UNCHANGED <<alg, authorityVars, coordinatorVars, wireVars>>

\* the socket opens: handleClientConnection registers the connection under a
\* generated clientId, the transport reports CONNECTED and authenticate()
\* sends AUTHENTICATE with the client's own clientId
TransportOpen(c) ==
    /\ session[c].wsConnecting
    /\ session' = [session EXCEPT ![c].connectionState = "connected",
                                  ![c].wsConnecting = FALSE,
                                  ![c].authenticating = TRUE,
                                  ![c].transportConnected = TRUE,
                                  ![c].joinSent = FALSE]
    /\ LET cm == [ClientManagerState EXCEPT
                    !.connections[c] = [clientId |-> generateClientId[c],
                                        documents |-> {}, open |-> TRUE,
                                        epoch |-> connections[c].epoch + 1]]
       IN SetClientManager(addClient(cm, c))
    /\ inbox' = [inbox EXCEPT ![c] =
                    <<[type |-> "authenticate",
                       clientId |-> session[c].clientId,
                       token |-> session[c].token]>>]
    /\ UNCHANGED <<alg, authorityVars, authRequired, authenticatedClients, suspended,
                   outbox, delivered>>

\* the one-second timer of authenticate() resolves it; connect() returns
AuthenticateResolved(c) ==
    /\ session[c].authenticating
    /\ session' = [session EXCEPT ![c].authenticating = FALSE,
                                  ![c].reconnectAttempts = 0,
                                  ![c].connectionState = "connected"]
    /\ UNCHANGED <<alg, authorityVars, coordinatorVars, wireVars>>

\* openDocument without a schema: a CollabDocument over SharedText('') is
\* registered and JOIN_DOCUMENT is sent
OpenDocument(c, documentId) ==
    /\ session[c].connectionState = "connected"
    /\ ~session[c].authenticating
    /\ ~session[c].open
    /\ session' = [session EXCEPT ![c].open = TRUE, ![c].joinSent = TRUE]
    /\ inbox' = [inbox EXCEPT ![c] =
                    Append(@, [type |-> "join_document",
                               documentId |-> documentId])]
    /\ UNCHANGED <<alg, authorityVars, coordinatorVars, outbox, delivered>>

\* CollabDocument.applyLocalOperation: SharedText.apply, push to
\* pendingOperations, and sendOperation through the 'operation' listener
\* (which sends only while connected)
ApplyLocalOperation(c, documentId, operation) ==
    /\ session[c].open
    /\ session[c].issued < OperationBudget[c]
    /\ operation \in LocalOperations(c)
    /\ session' = [session EXCEPT
          ![c].value = SharedTextApply(@, operation),
          ![c].sharedVersion = SharedVersionAfter(@, operation),
          ![c].pendingOperations = Append(@, operation),
          ![c].applied = Append(@, operation.id),
          ![c].issued = @ + 1]
    /\ inbox' = [inbox EXCEPT ![c] =
                    IF session[c].connectionState = "connected"
                    THEN Append(@, [type |-> "operation",
                                    documentId |-> documentId,
                                    operation |-> operation])
                    ELSE @]
    /\ UNCHANGED <<alg, authorityVars, coordinatorVars, outbox, delivered>>

\* CollabDocument.transformOperation on two text operations
clientTransformOperation(operationA, operationB) ==
    IF isTextOperation(operationA) /\ isTextOperation(operationB)
    THEN transformTextOperation(operationA, operationB).operation
    ELSE operationA

RECURSIVE transformAgainstPending(_, _, _)
transformAgainstPending(transformedOperation, pendingOperations, i) ==
    IF i > Len(pendingOperations) THEN transformedOperation
    ELSE transformAgainstPending(
             clientTransformOperation(transformedOperation, pendingOperations[i]),
             pendingOperations, i + 1)

\* CollabDocument.applyRemoteOperation
applyRemoteOperation(s, operation) ==
    LET transformedOperation ==
            transformAgainstPending(operation, s.pendingOperations, 1)
    IN [s EXCEPT
          !.value = SharedTextApply(@, transformedOperation),
          !.sharedVersion = SharedVersionAfter(@, transformedOperation),
          !.version = Max(@, operation.baseVersion + 1),
          !.applied = Append(@, operation.id)]

\* CollabDocument.updateState: the SharedText takes the snapshot with the
\* version the document had before, then the document takes the new version
updateState(s, state, version) ==
    [s EXCEPT !.value = state, !.sharedVersion = s.version,
              !.version = version, !.pendingOperations = <<>>,
              !.isJoined = TRUE]

\* CollabClient.handleMessage on the next message of the socket: only
\* 'document_state', 'operation' and 'error' change the session; an 'error'
\* that arrives while authenticate() is waiting rejects it, and connect()
\* schedules a reconnection
HandleMessage(c) ==
    /\ delivered[c] < Len(outbox[c])
    /\ delivered' = [delivered EXCEPT ![c] = @ + 1]
    /\ LET message == outbox[c][delivered[c] + 1]
           s == session[c]
       IN session' = [session EXCEPT ![c] =
              IF message.type = "document_state"
              THEN IF s.open THEN updateState(s, message.state, message.version)
                   ELSE s
              ELSE IF message.type = "operation"
              THEN IF s.open THEN applyRemoteOperation(s, message.operation)
                   ELSE s
              ELSE IF message.type = "error" /\ s.authenticating
              THEN scheduleReconnect([s EXCEPT !.authenticating = FALSE])
              ELSE s]
    /\ UNCHANGED <<alg, authorityVars, coordinatorVars, inbox, outbox>>

UserLeft(documentId, clientId) ==
    [type |-> "user_left", documentId |-> documentId, user |-> clientId]

\* DocumentManager.removeClientFromDocument
removeClientFromDocument(docs, documentId, clientId) ==
    IF MapHas(docs, documentId)
    THEN [docs EXCEPT ![documentId].clients = @ \ {clientId}]
    ELSE docs

\* the loop of handleClientDisconnection over client.documents: the
\* clientId leaves document.clients and USER_LEFT goes to the others
RECURSIVE leaveDocuments(_, _, _, _, _)
leaveDocuments(docs, out, cm, documentIds, clientId) ==
    IF documentIds = {} THEN [docs |-> docs, out |-> out]
    ELSE LET documentId == CHOOSE d \in documentIds : TRUE
             docs1 == removeClientFromDocument(docs, documentId, clientId)
             out1 == serverBroadcastToDocument(
                         out, docs1, cm, documentId,
                         UserLeft(documentId, clientId), clientId)
         IN leaveDocuments(docs1, out1, cm, documentIds \ {documentId},
                           clientId)

\* the 'close' event of a server socket, lost or closed by the client:
\* handleClientDisconnection on the client object of the connection.
\* Frames the socket had not handed to the server are lost.
HandleClientDisconnection(c) ==
    /\ connections[c].open
    /\ \/ connections[c].epoch <= MaxLosses
       \/ session[c].isClosing /\ session[c].transportConnected
    /\ LET client == connections[c]
           cm == [ClientManagerState EXCEPT !.connections[c].open = FALSE]
           left == leaveDocuments(documents, outbox, cm, client.documents,
                                  client.clientId)
       IN /\ documents' = left.docs
          /\ outbox' = left.out
          /\ SetClientManager(removeClient(cm, client.clientId))
    /\ inbox' = [inbox EXCEPT ![c] = <<>>]
    /\ UNCHANGED <<alg, persistence, trimmed, lastApply, authRequired,
                   authenticatedClients, suspended, delivered, session>>

\* the 'close' event of the client's transport after the server side of the
\* socket is gone: the transport reports ERROR, handleDisconnect sets
\* DISCONNECTED and schedules a reconnection; a transport that is closing
\* reports DISCONNECTED and handleDisconnect returns.  Frames not yet
\* received are lost.
HandleDisconnect(c) ==
    /\ session[c].transportConnected
    /\ ~connections[c].open
    /\ session' = [session EXCEPT ![c] =
                      IF @.isClosing
                      THEN [@ EXCEPT !.transportConnected = FALSE,
                                     !.connectionState = "disconnected"]
                      ELSE scheduleReconnect(
                               [@ EXCEPT !.transportConnected = FALSE])]
    /\ delivered' = [delivered EXCEPT ![c] = Len(outbox[c])]
    /\ UNCHANGED <<alg, authorityVars, coordinatorVars, inbox, outbox>>

\* a timer of scheduleReconnect fires, the one this.reconnectTimer names or
\* one it no longer names: reconnectAttempts++ and connect(), which returns
\* at once when the state is CONNECTED, fails (ERROR, scheduleReconnect)
\* when the transport is connecting or connected and otherwise starts
\* connecting
ReconnectTimer(c) ==
    \E stray \in BOOLEAN :
        /\ IF stray THEN session[c].strayTimers > 0
                    ELSE session[c].reconnectTimer
        /\ LET fired == IF stray
                        THEN [session[c] EXCEPT !.strayTimers = @ - 1]
                        ELSE [session[c] EXCEPT !.reconnectTimer = FALSE]
               s == [fired EXCEPT !.reconnectAttempts = @ + 1]
           IN session' = [session EXCEPT ![c] =
                  IF s.connectionState = "connected" THEN s
                  ELSE IF transportBusy(s) THEN scheduleReconnect(s)
                  ELSE [s EXCEPT !.connectionState = "connecting",
                                 !.wsConnecting = TRUE,
                                 !.isClosing = FALSE]]
        /\ UNCHANGED <<alg, authorityVars, coordinatorVars, wireVars>>

\* the socket of a connection attempt fails, 'error' and then 'close':
\* 'error' rejects transport.connect and connect() sets ERROR and calls
\* scheduleReconnect; 'close' makes the transport report ERROR and emit
\* 'close', and handleDisconnect sets DISCONNECTED and calls
\* scheduleReconnect again.  A transport that disconnect() put in
\* DISCONNECTED rejects nothing and handleDisconnect returns.
ConnectFailed(c) ==
    /\ session[c].wsConnecting
    /\ session' = [session EXCEPT ![c] =
          LET s == [@ EXCEPT !.wsConnecting = FALSE]
          IN IF s.isClosing THEN s
             ELSE scheduleReconnect(
                      [scheduleReconnect(s) EXCEPT
                          !.connectionState = "disconnected"])]
    /\ UNCHANGED <<alg, authorityVars, coordinatorVars, wireVars>>

\* cancelReconnect: the timer this.reconnectTimer names is cleared
cancelReconnect(s) ==
    [s EXCEPT !.reconnectTimer = FALSE, !.reconnectAttempts = 0]

\* CollabDocument.leave on the open document
leave(s) ==
    [s EXCEPT !.isJoined = FALSE, !.pendingOperations = <<>>]

\* the application calls CollabClient.disconnect, once: cancelReconnect,
\* leave on every document, transport.disconnect (an open socket is closed
\* and stays CONNECTED until its 'close' event, any other is left alone)
\* and DISCONNECTED
Disconnect(c) ==
    /\ session[c].connectionState # "disconnected"
    /\ ~session[c].disconnectCalled
    /\ session' = [session EXCEPT ![c] =
          [leave(cancelReconnect(@)) EXCEPT !.isClosing = TRUE,
                                             !.connectionState = "disconnected",
                                             !.disconnectCalled = TRUE]]
    /\ UNCHANGED <<alg, authorityVars, coordinatorVars, wireVars>>

(***************************************************************************)
(* The collaboration system: one server, the sessions of ClientIds         *)
(***************************************************************************)
Init ==
    /\ alg = AlgIdle
    /\ persistence \in BOOLEAN
    /\ authRequired = FALSE
    /\ AuthorityInit /\ CoordinatorInit /\ WireInit /\ SessionInit

Next ==
    \/ \E c \in ClientIds : Connect(c)
    \/ \E c \in ClientIds : TransportOpen(c)
    \/ \E c \in ClientIds : AuthenticateResolved(c)
    \/ \E c \in ClientIds, d \in DocumentIds : OpenDocument(c, d)
    \/ \E c \in ClientIds, d \in DocumentIds :
          \E operation \in LocalOperations(c) :
              ApplyLocalOperation(c, d, operation)
    \/ \E c \in ClientIds : HandleMessage(c)
    \/ \E c \in ClientIds : HandleAuthenticate(c)
    \/ \E c \in ClientIds : HandleJoinDocument(c)
    \/ \E c \in ClientIds : HandleOperation(c)
    \/ \E h \in suspended, resolved \in BOOLEAN : JoinResume(h, resolved)
    \/ \E h \in suspended, saved \in BOOLEAN : OperationSaved(h, saved)
    \/ \E h \in suspended, saved \in BOOLEAN : DocumentSaved(h, saved)

Spec == Init /\ [][Next]_vars

(***************************************************************************)
(* The same system with authentication required (auth.required) and no     *)
(* persistence adapter: the session c1 is configured with a token that     *)
(* verifies, the session c2 with any clientId and any token or none        *)
(***************************************************************************)
AuthInit ==
    /\ alg = AlgIdle
    /\ persistence = FALSE
    /\ authRequired = TRUE
    /\ AuthorityInit /\ CoordinatorInit /\ WireInit
    /\ \E clientId \in ClientIds, token \in Tokens \cup {Undefined} :
           session = [c \in ClientIds |->
                        IF c = "c1"
                        THEN [NewSession EXCEPT !.clientId = "c1",
                                                !.token = "editor"]
                        ELSE [NewSession EXCEPT !.clientId = clientId,
                                                !.token = token]]

NextAuth ==
    \/ \E c \in ClientIds : Connect(c)
    \/ \E c \in ClientIds : TransportOpen(c)
    \/ \E c \in ClientIds : AuthenticateResolved(c)
    \/ \E c \in ClientIds, d \in DocumentIds : OpenDocument(c, d)
    \/ \E c \in ClientIds, d \in DocumentIds :
          \E operation \in LocalOperations(c) :
              ApplyLocalOperation(c, d, operation)
    \/ \E c \in ClientIds : HandleMessage(c)
    \/ \E c \in ClientIds : HandleAuthenticate(c)
    \/ \E c \in ClientIds : HandleJoinDocument(c)
    \/ \E c \in ClientIds : HandleOperation(c)

SpecAuth == AuthInit /\ [][NextAuth]_vars

(***************************************************************************)
(* The life cycle of the connections: the sessions connect, open the       *)
(* document, lose their connection and reconnect; no operation is          *)
(* submitted.  Persistence may be configured, so that a JOIN_DOCUMENT can   *)
(* wait in loadDocument while the connection closes.                       *)
(***************************************************************************)
NextSession ==
    \/ \E c \in ClientIds : Connect(c)
    \/ \E c \in ClientIds : TransportOpen(c)
    \/ \E c \in ClientIds : AuthenticateResolved(c)
    \/ \E c \in ClientIds, d \in DocumentIds : OpenDocument(c, d)
    \/ \E c \in ClientIds : HandleMessage(c)
    \/ \E c \in ClientIds : HandleAuthenticate(c)
    \/ \E c \in ClientIds : HandleJoinDocument(c)
    \/ \E h \in suspended, resolved \in BOOLEAN : JoinResume(h, resolved)
    \/ \E c \in ClientIds : HandleClientDisconnection(c)
    \/ \E c \in ClientIds : HandleDisconnect(c)
    \/ \E c \in ClientIds : ReconnectTimer(c)

SpecSession == Init /\ [][NextSession]_vars

(***************************************************************************)
(* The connection of one session, without persistence: the session         *)
(* connects, its connection attempts may fail, its connection may be lost, *)
(* the reconnect timers fire, and the application may call disconnect()    *)
(***************************************************************************)
NextReconnect ==
    \E c \in {"c1"} :
        \/ Connect(c)
        \/ TransportOpen(c)
        \/ ConnectFailed(c)
        \/ AuthenticateResolved(c)
        \/ \E d \in DocumentIds : OpenDocument(c, d)
        \/ HandleMessage(c)
        \/ HandleAuthenticate(c)
        \/ HandleJoinDocument(c)
        \/ HandleClientDisconnection(c)
        \/ HandleDisconnect(c)
        \/ ReconnectTimer(c)
        \/ Disconnect(c)

ReconnectInit == Init /\ persistence = FALSE

SpecReconnect == ReconnectInit /\ [][NextReconnect]_vars

(***************************************************************************)
(* The authority on its own: DocumentManager.applyOperation called in a    *)
(* row on one resident document, persistence disabled, nobody joined       *)
(***************************************************************************)
TrimInit ==
    /\ alg = AlgIdle
    /\ persistence = FALSE
    /\ authRequired = FALSE
    /\ documents = [d \in DocumentIds |-> createNewDocument(d, 1)]
    /\ trimmed = [d \in DocumentIds |-> 0]
    /\ lastApply = NoApply
    /\ CoordinatorInit /\ WireInit /\ SessionInit

\* the inbound operation: an insert into the empty text, a delete otherwise,
\* based on the current version or on version 0
TrimOperation(document, b) ==
    IF document.data = <<>>
    THEN createInsertOperation(generateOperationId("c1", document.version + 1),
                               "c1", b, 0, <<"a">>, Now)
    ELSE createDeleteOperation(generateOperationId("c1", document.version + 1),
                               "c1", b, 0, 1, Now)

TrimApply ==
    \E d \in DocumentIds, fresh \in BOOLEAN :
        LET document == documents[d]
            operation == TrimOperation(document,
                             IF fresh THEN document.version ELSE 0)
        IN /\ document.version < MaxApplied
           /\ documents' = [documents EXCEPT
                               ![d] = applyOperationHead(document, operation)]
           /\ trimmed' = [trimmed EXCEPT
                             ![d] = @ + trimmedBy(document, operation)]
           /\ lastApply' = ApplyRecord(document, operation)
           /\ UNCHANGED <<alg, persistence, coordinatorVars, wireVars, session>>

SpecTrim == TrimInit /\ [][TrimApply]_vars

(***************************************************************************)
(* The authority given arbitrary operations: applyOperation takes whatever *)
(* the message carried -- text operations at any position up to one past   *)
(* the longest value, and an operation of another kind than the value      *)
(***************************************************************************)
InboundOperations(document) ==
    LET id == generateOperationId("c1", document.version + 1)
    IN UNION {
         {createInsertOperation(id, "c1", b, position, <<"a">>, Now),
          createDeleteOperation(id, "c1", b, position, 1, Now)} :
            b \in 0..document.version, position \in 0..(MaxInbound + 1)}
       \cup {createListInsertOperation(id, "c1", b, 0, "x", Now) :
                b \in 0..document.version}

ApplyInbound ==
    \E d \in DocumentIds :
        \E operation \in InboundOperations(documents[d]) :
            LET document == documents[d]
            IN /\ document.version < MaxInbound
               /\ documents' = [documents EXCEPT
                                   ![d] = applyOperationHead(document, operation)]
               /\ trimmed' = [trimmed EXCEPT
                                 ![d] = @ + trimmedBy(document, operation)]
               /\ lastApply' = ApplyRecord(document, operation)
               /\ UNCHANGED <<alg, persistence, coordinatorVars, wireVars,
                              session>>

SpecApply == TrimInit /\ [][ApplyInbound]_vars

(***************************************************************************)
(* The shared types on their own (SharedText, SharedList, SharedMap of the *)
(* client "c1"): an object with a drawn value receives mutating calls with *)
(* valid and invalid arguments.  `events` counts the events the object     *)
(* has emitted, `emitted` lists the operations of its 'operation' events,  *)
(* `threw` and `returned` are the outcome of the last call.                *)
(***************************************************************************)
MaxCalls == 2        \* most calls made on one shared object

NewShared(type, val) ==
    [kind |-> "shared", type |-> type, val |-> val, version |-> 0,
     events |-> 0, emitted |-> <<>>, calls |-> 0, threw |-> FALSE,
     returned |-> <<>>]

\* a call that throws before it touches the object
Throw(o) == [o EXCEPT !.calls = @ + 1, !.threw = TRUE, !.returned = <<>>]

\* a call that returns the given operations
Return(o, operations) ==
    [o EXCEPT !.calls = @ + 1, !.threw = FALSE, !.returned = operations]

\* the n-th generateOperationId of a call on the object
SharedOperationId(o, n) == generateOperationId("c1", 2 * o.calls + n)

\* apply of a shared type: the new value, the version rule, the events of
\* the operation kind, then 'change' and 'operation'
sharedApply(o, operation, val, kindEvents) ==
    [o EXCEPT !.val = val,
              !.version = SharedVersionAfter(@, operation),
              !.events = @ + kindEvents + 2,
              !.emitted = Append(@, operation)]

\* SharedText.insert
textInsert(o, position, text) ==
    IF position < 0 \/ position > Len(o.val) THEN Throw(o)
    ELSE IF Len(text) = 0 THEN Throw(o)
    ELSE LET operation == createInsertOperation(
                 SharedOperationId(o, 1), "c1", o.version, position, text, Now)
         IN Return(sharedApply(o, operation,
                               SharedTextApply(o.val, operation), 1),
                   <<operation>>)

\* SharedText.delete
textDelete(o, position, length) ==
    IF position < 0 \/ position >= Len(o.val) THEN Throw(o)
    ELSE IF length <= 0 THEN Throw(o)
    ELSE LET actualLength == Min(length, Len(o.val) - position)
             operation == createDeleteOperation(
                 SharedOperationId(o, 1), "c1", o.version, position,
                 actualLength, Now)
         IN Return(sharedApply(o, operation,
                               SharedTextApply(o.val, operation), 1),
                   <<operation>>)

RECURSIVE findCommonPrefix(_, _, _)
findCommonPrefix(a, b, i) ==
    IF i < Min(Len(a), Len(b)) /\ a[i + 1] = b[i + 1]
    THEN findCommonPrefix(a, b, i + 1)
    ELSE i

RECURSIVE findCommonSuffix(_, _, _)
findCommonSuffix(a, b, i) ==
    IF i < Min(Len(a), Len(b)) /\ a[Len(a) - i] = b[Len(b) - i]
    THEN findCommonSuffix(a, b, i + 1)
    ELSE i

\* SharedText.generateOperations: a delete of the old middle and an insert
\* of the new middle, both created on the current version
generateOperations(o, oldValue, newValue) ==
    LET commonPrefix == findCommonPrefix(oldValue, newValue, 0)
        commonSuffix == findCommonSuffix(
                            Substring(oldValue, commonPrefix, Len(oldValue)),
                            Substring(newValue, commonPrefix, Len(newValue)), 0)
        oldMiddle == Substring(oldValue, commonPrefix,
                               Len(oldValue) - commonSuffix)
        newMiddle == Substring(newValue, commonPrefix,
                               Len(newValue) - commonSuffix)
    IN (IF Len(oldMiddle) > 0
        THEN <<createDeleteOperation(SharedOperationId(o, 1), "c1", o.version,
                                     commonPrefix, Len(oldMiddle), Now)>>
        ELSE <<>>)
       \o
       (IF Len(newMiddle) > 0
        THEN <<createInsertOperation(SharedOperationId(o, 2), "c1", o.version,
                                     commonPrefix, newMiddle, Now)>>
        ELSE <<>>)

\* SharedText.setText
setText(o, newText) == Return(o, generateOperations(o, o.val, newText))

\* SharedList.insert
listInsert(o, index, item) ==
    IF index < 0 \/ index > Len(o.val) THEN Throw(o)
    ELSE LET operation == createListInsertOperation(
                 SharedOperationId(o, 1), "c1", o.version, index, item, Now)
         IN Return(sharedApply(o, operation,
                               SharedListApply(o.val, operation), 1),
                   <<operation>>)

\* SharedList.delete: one 'delete' event per removed item
listDelete(o, index, count) ==
    IF index < 0 \/ index >= Len(o.val) THEN Throw(o)
    ELSE IF count <= 0 THEN Throw(o)
    ELSE LET actualCount == Min(count, Len(o.val) - index)
             operation == createListDeleteOperation(
                 SharedOperationId(o, 1), "c1", o.version, index,
                 actualCount, Now)
         IN Return(sharedApply(o, operation,
                               SharedListApply(o.val, operation),
                               Len(Spliced(o.val, index, actualCount))),
                   <<operation>>)

\* SharedList.replace
listReplace(o, index, newItem) ==
    IF index < 0 \/ index >= Len(o.val) THEN Throw(o)
    ELSE LET operation == createListReplaceOperation(
                 SharedOperationId(o, 1), "c1", o.version, index, newItem,
                 o.val[index + 1], Now)
         IN Return(sharedApply(o, operation,
                               SharedListApply(o.val, operation), 1),
                   <<operation>>)

\* a move that accepts equal indexes
listMoveUnchecked(o, fromIndex, toIndex) ==
    IF fromIndex < 0 \/ fromIndex >= Len(o.val) THEN Throw(o)
    ELSE IF toIndex < 0 \/ toIndex >= Len(o.val) THEN Throw(o)
    ELSE LET operation == createListMoveOperation(
                 SharedOperationId(o, 1), "c1", o.version, fromIndex,
                 toIndex, Now)
         IN Return(sharedApply(o, operation,
                               SharedListApply(o.val, operation), 1),
                   <<operation>>)

\* SharedList.move
listMove(o, fromIndex, toIndex) ==
    IF fromIndex < 0 \/ fromIndex >= Len(o.val) THEN Throw(o)
    ELSE IF toIndex < 0 \/ toIndex >= Len(o.val) THEN Throw(o)
    ELSE IF fromIndex = toIndex THEN Throw(o)
    ELSE LET operation == createListMoveOperation(
                 SharedOperationId(o, 1), "c1", o.version, fromIndex,
                 toIndex, Now)
         IN Return(sharedApply(o, operation,
                               SharedListApply(o.val, operation), 1),
                   <<operation>>)

\* SharedMap.set; isString is typeof key === 'string'
mapSet(o, isString, key, value) ==
    IF ~isString THEN Throw(o)
    ELSE LET operation == createMapSetOperation(
                 SharedOperationId(o, 1), "c1", o.version, key, value,
                 MapGet(o.val, key), Now)
         IN Return(sharedApply(o, operation,
                               applyMapOperation(o.val, operation), 1),
                   <<operation>>)

\* the positions, indexes, lengths and counts given to the calls
CallNumbers == (0 - 1)..(MaxLen + 1)

SharedInit ==
    /\ alg \in {NewShared("text", val) : val \in SeqsUpTo(Chars, MaxLen)}
           \cup {NewShared("list", val) : val \in SeqsUpTo(Items, MaxLen)}
           \cup {NewShared("map", val) : val \in MapStates}
    /\ ProtocolIdle

\* a call on the object leaves everything else alone
Call(o) ==
    /\ alg.calls < MaxCalls
    /\ alg' = o
    /\ UNCHANGED <<authorityVars, coordinatorVars, wireVars, session>>

TextInsert ==
    \E position \in CallNumbers, text \in SeqsUpTo(Chars, MaxTextLen) :
        alg.type = "text" /\ Call(textInsert(alg, position, text))

TextDelete ==
    \E position \in CallNumbers, length \in CallNumbers :
        alg.type = "text" /\ Call(textDelete(alg, position, length))

SetText ==
    \E newText \in SeqsUpTo(Chars, MaxLen) :
        alg.type = "text" /\ Call(setText(alg, newText))

ListInsert ==
    \E index \in CallNumbers, item \in Items :
        alg.type = "list" /\ Call(listInsert(alg, index, item))

ListDelete ==
    \E index \in CallNumbers, count \in CallNumbers :
        alg.type = "list" /\ Call(listDelete(alg, index, count))

ListReplace ==
    \E index \in CallNumbers, item \in Items :
        alg.type = "list" /\ Call(listReplace(alg, index, item))

ListMove ==
    \E fromIndex \in CallNumbers, toIndex \in CallNumbers :
        alg.type = "list" /\ Call(listMove(alg, fromIndex, toIndex))

MapSet ==
    \E isString \in BOOLEAN, key \in Keys, value \in Values :
        alg.type = "map" /\ Call(mapSet(alg, isString, key, value))

NextShared ==
    \/ TextInsert \/ TextDelete \/ SetText
    \/ ListInsert \/ ListDelete \/ ListReplace \/ ListMove
    \/ MapSet

SpecShared == SharedInit /\ [][NextShared]_vars

(***************************************************************************)
(* apply called directly on a SharedText or SharedList with an operation   *)
(* made elsewhere, whose position or index may lie beyond the value        *)
(***************************************************************************)
RemoteTextOperations ==
    {createInsertOperation("c2", "c2", v, p, t, Now) :
        v \in 0..1, p \in 0..(MaxLen + 1),
        t \in SeqsUpTo(Chars, MaxTextLen) \ {<<>>}}
    \cup
    {createDeleteOperation("c2", "c2", v, p, 1, Now) :
        v \in 0..1, p \in 0..(MaxLen + 1)}

RemoteListOperations ==
    {createListInsertOperation("c2", "c2", v, i, it, Now) :
        v \in 0..1, i \in 0..(MaxLen + 1), it \in Items}
    \cup
    {createListReplaceOperation("c2", "c2", v, i, it, Undefined, Now) :
        v \in 0..1, i \in 0..(MaxLen + 1), it \in Items}
    \cup
    {createListMoveOperation("c2", "c2", v, i, j, Now) :
        v \in 0..1, i \in 0..(MaxLen + 1), j \in 0..(MaxLen + 1)}

\* SharedText.apply: no check of the operation, no throw
textApply(o, operation) ==
    Return(sharedApply(o, operation, SharedTextApply(o.val, operation), 1),
           <<>>)

\* SharedList.apply: no check of the operation, no throw
listApply(o, operation) ==
    Return(sharedApply(o, operation, SharedListApply(o.val, operation), 1),
           <<>>)

RemoteInit ==
    /\ alg \in {NewShared("text", val) : val \in SeqsUpTo(Chars, MaxLen)}
           \cup {NewShared("list", val) : val \in SeqsUpTo(Items, MaxLen)}
    /\ ProtocolIdle

TextApply ==
    \E operation \in RemoteTextOperations :
        alg.type = "text" /\ Call(textApply(alg, operation))

ListApply ==
    \E operation \in RemoteListOperations :
        alg.type = "list" /\ Call(listApply(alg, operation))

SpecRemote == RemoteInit /\ [][TextApply \/ ListApply]_vars

(***************************************************************************)
(* A CollabDocument of the session c1 opened with the schema {type:        *)
(* 'text'}.  initializeSharedData then calls setupSharedDataListeners, so  *)
(* every 'operation' event of the SharedText calls applyLocalOperation,    *)
(* which calls SharedText.apply, which emits 'operation' again.  The       *)
(* nesting ends when the call stack is exhausted; EventEmitter.emit        *)
(* catches the RangeError and the frames below it run to their end.  How   *)
(* deep the nesting goes, and how many of the unwinding frames still have  *)
(* room to push and to send, depends on the engine: any number from one    *)
(* up to MaxNesting is drawn.                                              *)
(***************************************************************************)
MaxNesting == 2          \* deepest nesting of listener calls drawn
MaxSchemaApplied == 3    \* no further operation once this many were applied
MaxSnapshotVersion == 2  \* largest version given to updateState

RECURSIVE applyTimes(_, _, _)
applyTimes(value, operation, n) ==
    IF n = 0 THEN value
    ELSE applyTimes(SharedTextApply(value, operation), operation, n - 1)

RECURSIVE Copies(_, _)
Copies(x, n) == IF n = 0 THEN <<>> ELSE <<x>> \o Copies(x, n - 1)

\* SharedText.apply with the listener of setupSharedDataListeners attached:
\* the first application, `depth` nested ones through applyLocalOperation,
\* and `pushes` of those applyLocalOperation calls reaching their push
listenerCascade(s, operation, depth, pushes) ==
    [s EXCEPT
        !.value = applyTimes(@, operation, 1 + depth),
        !.sharedVersion = SharedVersionAfter(@, operation),
        !.pendingOperations = @ \o Copies(operation, pushes),
        !.applied = @ \o Copies(operation.id, 1 + depth)]

\* the 'operation' listener of CollabClient.openDocument: sendOperation
sendOperations(in, s, documentId, operation, sends) ==
    IF s.connectionState = "connected"
    THEN in \o Copies([type |-> "operation", documentId |-> documentId,
                       operation |-> operation], sends)
    ELSE in

SchemaInit ==
    /\ alg = AlgIdle
    /\ persistence = FALSE
    /\ authRequired = FALSE
    /\ AuthorityInit /\ CoordinatorInit /\ WireInit
    /\ \E initialValue \in SeqsUpTo(Chars, 1),
          state \in {"connected", "disconnected"} :
            session = [c \in ClientIds |->
                IF c = "c1"
                THEN [NewSession EXCEPT !.clientId = c, !.open = TRUE,
                                        !.connectionState = state,
                                        !.value = initialValue]
                ELSE [NewSession EXCEPT !.clientId = c]]

\* SharedText.insert or SharedText.delete on the document's text
SchemaMutate(c, documentId) ==
    /\ session[c].open
    /\ session[c].issued < OperationBudget[c]
    /\ Len(session[c].applied) < MaxSchemaApplied
    /\ \E operation \in LocalOperations(c), depth \in 1..MaxNesting :
        \E pushes \in 1..depth :
        \E sends \in 1..pushes :
            /\ operation.baseVersion = session[c].sharedVersion
            /\ session' = [session EXCEPT ![c] =
                    [listenerCascade(@, operation, depth, pushes)
                        EXCEPT !.issued = @ + 1]]
            /\ inbox' = [inbox EXCEPT ![c] =
                    sendOperations(@, session[c], documentId, operation, sends)]
    /\ UNCHANGED <<alg, authorityVars, coordinatorVars, outbox, delivered>>

\* CollabDocument.applyRemoteOperation with an operation of the session c2
SchemaRemoteOperation(c, documentId) ==
    /\ session[c].open
    /\ Len(session[c].applied) < MaxSchemaApplied
    /\ \E remote \in ValidTextOperations(session[c].value, "c2", Now),
          depth \in 1..MaxNesting :
        \E pushes \in 1..depth :
        \E sends \in 1..pushes :
            LET operation == [remote EXCEPT !.id = generateOperationId("c2", 1)]
                transformedOperation ==
                    transformAgainstPending(operation,
                                            session[c].pendingOperations, 1)
            IN /\ session' = [session EXCEPT ![c] =
                      [listenerCascade(@, transformedOperation, depth, pushes)
                          EXCEPT !.version = Max(@, operation.baseVersion + 1)]]
               /\ inbox' = [inbox EXCEPT ![c] =
                      sendOperations(@, session[c], documentId,
                                     transformedOperation, sends)]
    /\ UNCHANGED <<alg, authorityVars, coordinatorVars, outbox, delivered>>

\* CollabDocument.updateState with a snapshot of the server
SchemaUpdateState(c) ==
    /\ session[c].open
    /\ \E state \in SeqsUpTo(Chars, 1), version \in 0..MaxSnapshotVersion :
            session' = [session EXCEPT ![c] = updateState(@, state, version)]
    /\ UNCHANGED <<alg, authorityVars, coordinatorVars, wireVars>>

NextSchema ==
    \/ SchemaMutate("c1", "d1")
    \/ SchemaRemoteOperation("c1", "d1")
    \/ SchemaUpdateState("c1")

SpecSchema == SchemaInit /\ [][NextSchema]_vars

(***************************************************************************)
(* Algebra harness: two concurrent operations A and B on one value         *)
(***************************************************************************)
AlgInputs(kind, val, A, B) ==
    [kind |-> kind, pc |-> "inputs", val |-> val, A |-> A, B |-> B,
     ab |-> val, ba |-> val]

TextInit ==
    /\ \E val \in SeqsUpTo(Chars, MaxLen), tsA \in Timestamps, tsB \in Timestamps :
            \E A \in ValidTextOperations(val, "c1", tsA),
               B \in ValidTextOperations(val, "c2", tsB) :
                alg = AlgInputs("text", val, A, B)
    /\ ProtocolIdle

\* apply A then T(B, A), and apply B then T(A, B)
TextConverge ==
    /\ alg.kind = "text" /\ alg.pc = "inputs"
    /\ alg' = [alg EXCEPT
          !.pc = "done",
          !.ab = SharedTextApply(SharedTextApply(alg.val, alg.A),
                     transformTextOperation(alg.B, alg.A).operation),
          !.ba = SharedTextApply(SharedTextApply(alg.val, alg.B),
                     transformTextOperation(alg.A, alg.B).operation)]
    /\ UNCHANGED <<authorityVars, coordinatorVars, wireVars, session>>

SpecText == TextInit /\ [][TextConverge]_vars

\* two concurrent deletes on a text long enough for them to overlap in part
ValidDeleteOperations(value, clientId, ts) ==
    {createDeleteOperation(clientId, clientId, 0, pl[1], pl[2], ts) :
        pl \in {q \in (0..Len(value)) \X (1..MaxDeleteLen) :
                    q[1] < Len(value) /\ q[1] + q[2] <= Len(value)}}

DeleteInit ==
    /\ \E val \in SeqsUpTo(Chars, MaxDeleteLen), tsA \in Timestamps, tsB \in Timestamps :
            \E A \in ValidDeleteOperations(val, "c1", tsA),
               B \in ValidDeleteOperations(val, "c2", tsB) :
                alg = AlgInputs("text", val, A, B)
    /\ ProtocolIdle

SpecDelete == DeleteInit /\ [][TextConverge]_vars

ListInit ==
    /\ \E val \in SeqsUpTo(Items, MaxLen), tsA \in Timestamps, tsB \in Timestamps :
            \E A \in ValidListOperations(val, "c1", tsA),
               B \in ValidListOperations(val, "c2", tsB) :
                alg = AlgInputs("list", val, A, B)
    /\ ProtocolIdle

ListConverge ==
    /\ alg.kind = "list" /\ alg.pc = "inputs"
    /\ alg' = [alg EXCEPT
          !.pc = "done",
          !.ab = SharedListApply(SharedListApply(alg.val, alg.A),
                     transformListOperation(alg.B, alg.A).operation),
          !.ba = SharedListApply(SharedListApply(alg.val, alg.B),
                     transformListOperation(alg.A, alg.B).operation)]
    /\ UNCHANGED <<authorityVars, coordinatorVars, wireVars, session>>

SpecList == ListInit /\ [][ListConverge]_vars

MapInit ==
    /\ \E val \in MapStates, tsA \in Timestamps, tsB \in Timestamps :
            \E A \in ValidMapOperations(val, "c1", tsA),
               B \in ValidMapOperations(val, "c2", tsB) :
                alg = AlgInputs("map", val, A, B)
    /\ ProtocolIdle

MapConverge ==
    /\ alg.kind = "map" /\ alg.pc = "inputs"
    /\ alg' = [alg EXCEPT
          !.pc = "done",
          !.ab = applyMapOperation(applyMapOperation(alg.val, alg.A),
                     transformMapOperation(alg.B, alg.A).operation),
          !.ba = applyMapOperation(applyMapOperation(alg.val, alg.B),
                     transformMapOperation(alg.A, alg.B).operation)]
    /\ UNCHANGED <<authorityVars, coordinatorVars, wireVars, session>>

SpecMap == MapInit /\ [][MapConverge]_vars

(***************************************************************************)
(* The authority and a shared type apply the same operation to the same    *)
(* value: ab is document.data after applyOperationToData, ba is the value  *)
(* of the shared type after apply                                          *)
(***************************************************************************)
DataInit ==
    /\ \/ \E val \in SeqsUpTo(Chars, MaxLen), ts \in Timestamps :
            \E A \in ValidTextOperations(val, "c1", ts) :
                alg = AlgInputs("string", val, A, A)
       \/ \E val \in SeqsUpTo(Items, MaxLen), ts \in Timestamps :
            \E A \in ValidListOperations(val, "c1", ts) :
                alg = AlgInputs("array", val, A, A)
       \/ \E val \in MapStates, ts \in Timestamps :
            \E A \in ValidMapOperations(val, "c1", ts) :
                alg = AlgInputs("object", val, A, A)
    /\ ProtocolIdle

sharedTypeApply(typeOfData, value, operation) ==
    IF typeOfData = "string" THEN SharedTextApply(value, operation)
    ELSE IF typeOfData = "array" THEN SharedListApply(value, operation)
    ELSE applyMapOperation(value, operation)

ApplyToData ==
    /\ alg.kind \in {"string", "array", "object"} /\ alg.pc = "inputs"
    /\ alg' = [alg EXCEPT
          !.pc = "done",
          !.ab = applyOperationToDataOf(alg.kind, alg.val, alg.A),
          !.ba = sharedTypeApply(alg.kind, alg.val, alg.A)]
    /\ UNCHANGED <<authorityVars, coordinatorVars, wireVars, session>>

SpecData == DataInit /\ [][ApplyToData]_vars

(***************************************************************************)
(* generateOperations of the three shared types: the operations it returns *)
(* for an old and a new value are applied in order to the old value        *)
(***************************************************************************)
\* SharedList.generateOperations: one pass over the indexes of the longer
\* list, comparing the two items at each index
RECURSIVE listGenerateFrom(_, _, _, _)
listGenerateFrom(o, oldValue, newValue, i) ==
    IF i >= Max(Len(oldValue), Len(newValue)) THEN <<>>
    ELSE LET oldItem == IF i < Len(oldValue) THEN oldValue[i + 1] ELSE Undefined
             newItem == IF i < Len(newValue) THEN newValue[i + 1] ELSE Undefined
             id == SharedOperationId(o, i + 1)
         IN (IF oldItem = Undefined /\ newItem # Undefined
             THEN <<createListInsertOperation(id, "c1", o.version, i, newItem,
                                              Now)>>
             ELSE IF oldItem # Undefined /\ newItem = Undefined
             THEN <<createListDeleteOperation(id, "c1", o.version, i, 1, Now)>>
             ELSE IF oldItem # newItem /\ oldItem # Undefined
                     /\ newItem # Undefined
             THEN <<createListReplaceOperation(id, "c1", o.version, i, newItem,
                                               oldItem, Now)>>
             ELSE <<>>)
            \o listGenerateFrom(o, oldValue, newValue, i + 1)

listGenerateOperations(o, oldValue, newValue) ==
    listGenerateFrom(o, oldValue, newValue, 0)

\* the order in which Object.entries lists the keys
KeyOrder == <<"k1", "k2">>

\* SharedMap.generateOperations, first loop: the keys of the new value
RECURSIVE mapGenerateSets(_, _, _, _)
mapGenerateSets(o, oldValue, newValue, i) ==
    IF i > Len(KeyOrder) THEN <<>>
    ELSE LET key == KeyOrder[i]
         IN (IF key \in DOMAIN newValue /\ MapGet(oldValue, key) # newValue[key]
             THEN <<createMapSetOperation(SharedOperationId(o, i), "c1",
                        o.version, key, newValue[key], MapGet(oldValue, key),
                        Now)>>
             ELSE <<>>)
            \o mapGenerateSets(o, oldValue, newValue, i + 1)

\* SharedMap.generateOperations, second loop: the keys of the old value
RECURSIVE mapGenerateDeletes(_, _, _, _)
mapGenerateDeletes(o, oldValue, newValue, i) ==
    IF i > Len(KeyOrder) THEN <<>>
    ELSE LET key == KeyOrder[i]
         IN (IF key \in DOMAIN oldValue /\ key \notin DOMAIN newValue
             THEN <<createMapDeleteOperation(
                        SharedOperationId(o, Len(KeyOrder) + i), "c1",
                        o.version, key, oldValue[key], Now)>>
             ELSE <<>>)
            \o mapGenerateDeletes(o, oldValue, newValue, i + 1)

mapGenerateOperations(o, oldValue, newValue) ==
    mapGenerateSets(o, oldValue, newValue, 1)
        \o mapGenerateDeletes(o, oldValue, newValue, 1)

RECURSIVE applyInOrder(_, _, _, _)
applyInOrder(typeOfData, value, operations, i) ==
    IF i > Len(operations) THEN value
    ELSE applyInOrder(typeOfData,
                      sharedTypeApply(typeOfData, value, operations[i]),
                      operations, i + 1)

GenerateInputs(typeOfData, oldValue, newValue) ==
    [kind |-> "generate", type |-> typeOfData, pc |-> "inputs",
     old |-> oldValue, new |-> newValue, operations |-> <<>>,
     result |-> oldValue]

GenerateInit ==
    /\ \/ \E oldValue \in SeqsUpTo(Chars, MaxLen),
             newValue \in SeqsUpTo(Chars, MaxLen) :
                alg = GenerateInputs("string", oldValue, newValue)
       \/ \E oldValue \in SeqsUpTo(Items, MaxLen),
             newValue \in SeqsUpTo(Items, MaxLen) :
                alg = GenerateInputs("array", oldValue, newValue)
       \/ \E oldValue \in MapStates, newValue \in MapStates :
                alg = GenerateInputs("object", oldValue, newValue)
    /\ ProtocolIdle

Generate ==
    /\ alg.kind = "generate" /\ alg.pc = "inputs"
    /\ LET o == NewShared(alg.type, alg.old)
           operations ==
               IF alg.type = "string"
               THEN generateOperations(o, alg.old, alg.new)
               ELSE IF alg.type = "array"
               THEN listGenerateOperations(o, alg.old, alg.new)
               ELSE mapGenerateOperations(o, alg.old, alg.new)
       IN alg' = [alg EXCEPT
              !.pc = "done",
              !.operations = operations,
              !.result = applyInOrder(alg.type, alg.old, operations, 1)]
    /\ UNCHANGED <<authorityVars, coordinatorVars, wireVars, session>>

SpecGenerate == GenerateInit /\ [][Generate]_vars

(***************************************************************************)
(* Composition: a client makes an operation A on a text, then an operation *)
(* B on the result; the two are applied in a row, and composed and applied *)
(***************************************************************************)
RECURSIVE applyAll(_, _, _)
applyAll(value, operations, i) ==
    IF i > Len(operations) THEN value
    ELSE applyAll(SharedTextApply(value, operations[i]), operations, i + 1)

ComposeInit ==
    /\ \E val \in SeqsUpTo(Chars, MaxLen), clientIdB \in ClientIds :
           \E A \in ValidTextOperations(val, "c1", Now) :
               \E B \in ValidTextOperations(SharedTextApply(val, A),
                                            clientIdB, Now) :
                   alg = AlgInputs("compose", val, A, B)
    /\ ProtocolIdle

\* ab: A then B; ba: the composition of [A, B]
Compose ==
    /\ alg.kind = "compose" /\ alg.pc = "inputs"
    /\ alg' = [alg EXCEPT
          !.pc = "done",
          !.ab = applyAll(alg.val, <<alg.A, alg.B>>, 1),
          !.ba = applyAll(alg.val, composeTextOperations(<<alg.A, alg.B>>), 1)]
    /\ UNCHANGED <<authorityVars, coordinatorVars, wireVars, session>>

SpecCompose == ComposeInit /\ [][Compose]_vars

\* C1: TP1 for text -- applying A then T(B, A) yields the same string as
\* applying B then T(A, B), for every value and every pair of valid
\* concurrent text operations.
C1_TextTP1 == (alg.kind = "text" /\ alg.pc = "done") => alg.ab = alg.ba

\* C2: TP1 for lists -- applying A then T(B, A) yields the same list as
\* applying B then T(A, B), for every list and every pair of valid concurrent
\* list operations (insert, delete, replace, move).
C2_ListTP1 == (alg.kind = "list" /\ alg.pc = "done") => alg.ab = alg.ba

\* C3: TP1 for maps -- applying A then T(B, A) yields the same map as
\* applying B then T(A, B), for every map and every pair of concurrent map
\* operations (set, delete, batch).
C3_MapTP1 == (alg.kind = "map" /\ alg.pc = "done") => alg.ab = alg.ba


\* C10: the stored operation list of every document is the contiguous
\* most-recent suffix of the history -- version equals the number of trimmed
\* operations plus the length of the list, the i-th stored operation (from
\* 0) has applied version offset + i + 1, the list never holds more than
\* 1000 operations after an apply, and each cut leaves the last 500 (so
\* 501 operations go at a time and at least 500 stay).
C10_RecentOperations ==
    \A d \in DOMAIN documents :
        LET document == documents[d]
            n == Len(document.operations)
        IN /\ document.version = trimmed[d] + n
           /\ \A i \in 1..n :
                  document.operations[i].baseVersion + 1 = trimmed[d] + (i - 1) + 1
           /\ n <= OperationsHighWater
           /\ trimmed[d] % (OperationsHighWater + 1 - OperationsKept) = 0
           /\ trimmed[d] > 0 => n >= OperationsKept

\* a document whose list was cut and has grown again since
C10_Trimmed ==
    \E d \in DOMAIN documents :
        /\ trimmed[d] > 0
        /\ Len(documents[d].operations) > OperationsKept


\* the operation the inbound operation becomes when it is transformed, in
\* order, against the later operations with the transformation of the core
transformedInOrder(inbound, later) == transformAgainstPending(inbound, later, 1)

\* C4: when an operation arrives whose baseVersion is lower than the current
\* version, the operation the authority applies and stores is the inbound
\* one transformed in order against every stored operation with a higher
\* applied version, and the value is the old value with that operation
\* applied.  Stated for the case where those stored operations all come
\* from other clients.
C4_TransformedAgainstLater ==
    (lastApply.documentId # "none"
        /\ lastApply.inbound.baseVersion < lastApply.versionBefore
        /\ \A i \in 1..Len(lastApply.later) :
               lastApply.later[i].clientId # lastApply.inbound.clientId)
    => LET expected == transformedInOrder(lastApply.inbound, lastApply.later)
       IN /\ lastApply.applied =
                 [expected EXCEPT !.baseVersion = lastApply.versionBefore]
          /\ lastApply.dataAfter =
                 applyOperationToData(lastApply.dataBefore, expected)

\* nothing is in flight: no unhandled message in either direction and no
\* handler waiting for the persistence adapter
Quiescent ==
    /\ suspended = {}
    /\ \A c \in ClientIds : inbox[c] = <<>> /\ delivered[c] = Len(outbox[c])

IsSuffix(s, t) ==
    Len(s) <= Len(t) /\ s = SubSeq(t, Len(t) - Len(s) + 1, Len(t))

\* the server refused nothing: no ERROR message was sent
NothingRefused ==
    \A c \in ClientIds : \A i \in 1..Len(outbox[c]) : outbox[c][i].type # "error"

\* C5: broadcast uniformity -- once every message has been delivered and
\* handled, every client joined to a document has applied the operations of
\* the authority in the authority's order (all but a prefix from before its
\* join) and holds the authority's value.  Stated for the runs in which the
\* server accepted every operation.
C5_BroadcastUniformity ==
    (Quiescent /\ NothingRefused) =>
        \A d \in DOMAIN documents, c \in ClientIds :
            (documents[d].instance = 1 /\ c \in documents[d].clients
                /\ session[c].open)
            => /\ session[c].value = documents[d].data
               /\ IsSuffix(session[c].applied,
                           [i \in 1..Len(documents[d].operations) |->
                               documents[d].operations[i].id])

\* C6: the applied operations of a document are broadcast to every peer in
\* the order of their applied versions, whatever the interleaving of the
\* inbound operations and of the persistence calls.  Stated for the
\* operations a peer receives from others.
C6_BroadcastOrder ==
    \A d \in DOMAIN documents, c \in ClientIds :
        documents[d].instance = 1 =>
            \A i, j \in 1..Len(outbox[c]) :
                (i < j /\ isBroadcast(outbox[c][i]) /\ isBroadcast(outbox[c][j])
                    /\ outbox[c][i].documentId = d /\ outbox[c][j].documentId = d
                    /\ outbox[c][i].operation.clientId # c
                    /\ outbox[c][j].operation.clientId # c)
                => outbox[c][i].operation.baseVersion
                       < outbox[c][j].operation.baseVersion

\* C7: the version in the acknowledgement sent to the originator of an
\* operation is that operation's applied version (the version of the
\* authority right after it was applied).
C7_AckVersion ==
    \A d \in DOMAIN documents, c \in ClientIds :
        documents[d].instance = 1 =>
            \A i \in 1..Len(outbox[c]), k \in 1..Len(documents[d].operations) :
                (isAck(outbox[c][i])
                    /\ outbox[c][i].operationId = documents[d].operations[k].id)
                => outbox[c][i].version
                       = documents[d].operations[k].baseVersion + 1

\* C8: the acknowledgement of an originator's own operation is sent to it
\* before the broadcast of any operation of a peer with a higher applied
\* version.
C8_AckBeforeLaterBroadcast ==
    \A d \in DOMAIN documents, c \in ClientIds :
        documents[d].instance = 1 =>
            \A i, j \in 1..Len(outbox[c]), k \in 1..Len(documents[d].operations) :
                LET own == documents[d].operations[k]
                IN (isAck(outbox[c][i]) /\ outbox[c][i].operationId = own.id
                       /\ own.clientId = c
                       /\ isBroadcast(outbox[c][j])
                       /\ outbox[c][j].documentId = d
                       /\ outbox[c][j].operation.clientId # c
                       /\ outbox[c][j].operation.baseVersion > own.baseVersion)
                   => i < j

\* C9: the originator of an operation is never sent a broadcast copy of it.
C9_NoBroadcastToOriginator ==
    \A c \in ClientIds : \A i \in 1..Len(outbox[c]) :
        isBroadcast(outbox[c][i]) => outbox[c][i].operation.clientId # c

\* C11: an inbound operation whose baseVersion is older than the oldest
\* operation the authority still retains is rejected -- the value and the
\* version of the document stay what they were and nothing is stored.
C11_StaleBaseRejected ==
    (lastApply.documentId # "none"
        /\ lastApply.inbound.baseVersion < lastApply.retainedFrom)
    => /\ lastApply.versionAfter = lastApply.versionBefore
       /\ lastApply.dataAfter = lastApply.dataBefore
       /\ lastApply.storedAfter = 0


\* the operation does not fit the value: a text position past the end of
\* the string, or an operation that is not a text operation on a string
Unappliable(data, operation) ==
    IF operation.type = "text-insert" THEN operation.position > Len(data)
    ELSE IF operation.type = "text-delete"
    THEN operation.position + operation.length > Len(data)
    ELSE TRUE

\* C12: an operation that cannot be applied to the current value of the
\* authority (out of range after transformation, or of another kind than
\* the value) is dropped -- value and version unchanged, nothing stored.
C12_UnappliableDropped ==
    (lastApply.documentId # "none"
        /\ Unappliable(lastApply.dataBefore, lastApply.applied))
    => /\ lastApply.versionAfter = lastApply.versionBefore
       /\ lastApply.dataAfter = lastApply.dataBefore
       /\ lastApply.storedAfter = 0

\* C13: persistence is fail-soft -- whatever saveOperation and saveDocument
\* answer, once the handler of a stored operation has finished its
\* originator has been sent the acknowledgement, and no INVALID_OPERATION
\* error has been sent to anybody.
C13_PersistenceFailSoft ==
    /\ \A d \in DOMAIN documents :
          \A k \in 1..Len(documents[d].operations) :
              LET stored == documents[d].operations[k]
              IN (\A h \in suspended :
                      h.kind = "operation" => h.operation.id # stored.id)
                 => \E i \in 1..Len(outbox[stored.clientId]) :
                        /\ isAck(outbox[stored.clientId][i])
                        /\ outbox[stored.clientId][i].operationId = stored.id
    /\ \A c \in ClientIds : \A i \in 1..Len(outbox[c]) :
           outbox[c][i] # ErrorMessage("INVALID_OPERATION")

\* the server answered an AUTHENTICATE of this connection with AUTH_SUCCESS
AuthenticatedOn(c) ==
    \E i \in 1..Len(outbox[c]) : outbox[c][i] = AuthSuccess

\* C14: with authentication required, a connection is a member of a document
\* only if an AUTHENTICATE sent on that same connection succeeded, whatever
\* clientId it declares and whatever other connections did.
C14_MembersAuthenticated ==
    authRequired =>
        \A c \in ClientIds :
            connections[c].documents # {} => AuthenticatedOn(c)

\* the coordinator's registry has the clientId this connection carries as
\* joined to the document
JoinedTo(c, documentId) ==
    /\ connections[c].clientId \in DOMAIN clients
    /\ documentId \in connections[clients[connections[c].clientId]].documents

\* the ClientInfo registered for the clientId of this connection allows
\* editing the document
MayEdit(c, documentId) ==
    /\ connections[c].clientId \in DOMAIN authenticatedClients
    /\ LET info == authenticatedClients[connections[c].clientId]
       IN \/ ~info.hasPermissions
          \/ info.permissions \cap {"edit", "admin", EditPermission[documentId]}
                 # {}

HandlersOf(c) == {h \in suspended : h.conn = c}

\* C16: once a connection has closed and every handler that was running for
\* it has finished, the clientId of the connection is in the client set of no
\* document (neither document.clients nor the registry's set) and is not in
\* the client registry
C16_ClosedClientRemoved ==
    \A c \in ClientIds :
        (connections[c].epoch > 0 /\ ~connections[c].open /\ HandlersOf(c) = {})
            => LET clientId == connections[c].clientId
               IN /\ \A d \in DocumentIds :
                        /\ MapHas(documents, d) => clientId \notin documents[d].clients
                        /\ clientId \notin getClientsInDocument(ClientManagerState, d)
                  /\ ~MapHas(clients, clientId)

\* the messages of the given type the session c has received on its socket
Received(c, type) ==
    {i \in 1..delivered[c] : outbox[c][i].type = type}

\* C17: when a session has received AUTH_FAILED while authenticate() was
\* waiting, the end of authenticate() does not leave the session CONNECTED:
\* only AUTH_SUCCESS makes a session CONNECTED
C17_ConnectedAfterAuthSuccess ==
    [][\A c \in ClientIds :
          (Received(c, "auth_failed") # {} /\ AuthenticateResolved(c))
              => session'[c].connectionState # "connected"]_vars

\* the next message of its socket the session c handles has the given type
Delivers(c, type) ==
    /\ delivered[c] < Len(outbox[c])
    /\ outbox[c][delivered[c] + 1].type = type

\* C18: when the server's reply to JOIN_DOCUMENT is delivered to a session
\* that has opened the document, the document of the session is joined, its
\* version and value are the ones of the reply and its pending buffer is
\* empty
C18_JoinReplyApplied ==
    [][\A c \in ClientIds :
          (Delivers(c, "document_joined") /\ session[c].open /\ HandleMessage(c))
              => LET message == outbox[c][delivered[c] + 1]
                 IN /\ session'[c].isJoined
                    /\ session'[c].version = message.version
                    /\ session'[c].pendingOperations = <<>>
                    /\ session'[c].value = message.state]_vars

\* C19: when the acknowledgement of an operation (OPERATION_APPLIED with the
\* operationId) is delivered to the session that submitted it, the operation
\* is no longer in the pending buffer of the session's document
C19_AckRemovesPending ==
    [][\A c \in ClientIds :
          (/\ Delivers(c, "operation_applied")
           /\ isAck(outbox[c][delivered[c] + 1])
           /\ HandleMessage(c))
              => LET message == outbox[c][delivered[c] + 1]
                     pending == session'[c].pendingOperations
                 IN \A i \in 1..Len(pending) :
                        pending[i].id # message.operationId]_vars

\* C20: once an automatic reconnection has succeeded (the connect() of the
\* reconnect timer has returned on a new transport), the session has sent
\* JOIN_DOCUMENT on the new transport for the document it had open
C20_RejoinAfterReconnect ==
    \A c \in ClientIds :
        (/\ connections[c].epoch > 1
         /\ session[c].transportConnected
         /\ session[c].connectionState = "connected"
         /\ ~session[c].authenticating
         /\ session[c].open)
            => session[c].joinSent

\* C21: once the application has called disconnect(), whatever the state of
\* the session was, no reconnect timer is pending and the session is neither
\* CONNECTING nor CONNECTED (the application does not call connect() again)
C21_DisconnectIsFinal ==
    \A c \in ClientIds :
        session[c].disconnectCalled
            => /\ ~session[c].reconnectTimer
               /\ session[c].strayTimers = 0
               /\ session[c].connectionState \notin {"connecting", "connected"}

\* the reconnect timers of the session s that can still fire
PendingTimers(s) == (IF s.reconnectTimer THEN 1 ELSE 0) + s.strayTimers

\* C22: since the last successful connection a session has made at most
\* reconnection.attempts automatic connection attempts, and at most one
\* reconnect timer of it is pending
C22_BoundedReconnection ==
    \A c \in ClientIds :
        /\ PendingTimers(session[c]) <= 1
        /\ session[c].reconnectAttempts <= ReconnectionAttempts

\* C23: after sharedText.setText(newContent) the value of the SharedText is
\* newContent, and the operations that produce the change (the ones the call
\* returns) have been emitted as 'operation' events
C23_SetTextApplied ==
    [][\A newText \in SeqsUpTo(Chars, MaxLen) :
          (alg.type = "text" /\ Call(setText(alg, newText)))
              => /\ alg'.val = newText
                 /\ alg'.emitted = alg.emitted \o alg'.returned]_vars

\* C24: when the merge rule accepts two consecutive operations A, B of one
\* client (inserts with B at the end of A's text, or deletes at the same
\* position), applying composeTextOperations([A, B]) gives the string that
\* applying A and then B gives
C24_ComposeCorrect ==
    (/\ alg.kind = "compose" /\ alg.pc = "done"
     /\ canMergeOperations(alg.A, alg.B))
        => /\ Len(composeTextOperations(<<alg.A, alg.B>>)) = 1
           /\ alg.ba = alg.ab

\* two operations were merged into one that changes the text
C24_Merged ==
    /\ alg.kind = "compose" /\ alg.pc = "done"
    /\ canMergeOperations(alg.A, alg.B)
    /\ alg.ba # alg.val
    /\ alg.ba # SharedTextApply(alg.val, alg.A)

\* the call that made this step failed and left the object as it was
Rejected ==
    /\ alg'.threw
    /\ alg'.val = alg.val
    /\ alg'.version = alg.version
    /\ alg'.events = alg.events
    /\ alg'.emitted = alg.emitted

\* a position at which nothing can be inserted, resp. nothing deleted
OutOfRangeInsert(value, position) == position < 0 \/ position > Len(value)
OutOfRange(value, position) == position < 0 \/ position >= Len(value)

\* C25: a mutating call on a shared type with invalid arguments (position or
\* index out of range, empty insert text, delete length or count not
\* positive, move with equal source and target, set with a key that is not
\* a string) fails, leaves value and version unchanged and emits no event
C25_InvalidArgumentsRejected ==
    [][/\ \A position \in CallNumbers, text \in SeqsUpTo(Chars, MaxTextLen) :
            (/\ alg.type = "text"
             /\ OutOfRangeInsert(alg.val, position) \/ text = <<>>
             /\ Call(textInsert(alg, position, text))) => Rejected
       /\ \A position \in CallNumbers, length \in CallNumbers :
            (/\ alg.type = "text"
             /\ OutOfRange(alg.val, position) \/ length <= 0
             /\ Call(textDelete(alg, position, length))) => Rejected
       /\ \A index \in CallNumbers, item \in Items :
            (/\ alg.type = "list"
             /\ OutOfRangeInsert(alg.val, index)
             /\ Call(listInsert(alg, index, item))) => Rejected
       /\ \A index \in CallNumbers, count \in CallNumbers :
            (/\ alg.type = "list"
             /\ OutOfRange(alg.val, index) \/ count <= 0
             /\ Call(listDelete(alg, index, count))) => Rejected
       /\ \A index \in CallNumbers, item \in Items :
            (/\ alg.type = "list"
             /\ OutOfRange(alg.val, index)
             /\ Call(listReplace(alg, index, item))) => Rejected
       /\ \A fromIndex \in CallNumbers, toIndex \in CallNumbers :
            (/\ alg.type = "list"
             /\ \/ OutOfRange(alg.val, fromIndex)
                \/ OutOfRange(alg.val, toIndex)
                \/ fromIndex = toIndex
             /\ Call(listMove(alg, fromIndex, toIndex))) => Rejected
       /\ \A key \in Keys, value \in Values :
            (/\ alg.type = "map"
             /\ Call(mapSet(alg, FALSE, key, value))) => Rejected]_vars

\* a call was rejected on an object that an earlier call had changed
C25_RejectedAfterChange ==
    /\ alg.kind = "shared"
    /\ alg.threw
    /\ alg.events > 0

\* operationA transformed against operationB has moved right by the length
\* of operationB's text
Shifted(operationA, operationB) ==
    transformTextOperation(operationA, operationB).operation.position
        = operationA.position + Len(operationB.text)

\* C26: for two concurrent inserts at the same position the transformation
\* breaks the tie by (timestamp, clientId): A is shifted by the length of
\* B's text exactly when A's (timestamp, clientId) is the greater, and so
\* exactly one of T(A, B) and T(B, A) is shifted
C26_InsertTieBreak ==
    (/\ alg.kind = "text" /\ alg.pc = "done"
     /\ isInsertOperation(alg.A) /\ isInsertOperation(alg.B)
     /\ alg.A.position = alg.B.position)
        => /\ Shifted(alg.A, alg.B) <=> Wins(alg.A, alg.B)
           /\ Shifted(alg.B, alg.A) <=> Wins(alg.B, alg.A)

\* the insert lies strictly inside the range of the delete
StrictlyInside(insert, delete) ==
    /\ isInsertOperation(insert) /\ isDeleteOperation(delete)
    /\ delete.position < insert.position
    /\ insert.position < delete.position + delete.length

\* C27: for a delete D and a concurrent insert I whose position lies strictly
\* inside D's range, applying D then T(I, D) gives the same string as
\* applying I then T(D, I)
C27_InsertInsideDeleteConverges ==
    (/\ alg.kind = "text" /\ alg.pc = "done"
     /\ StrictlyInside(alg.A, alg.B) \/ StrictlyInside(alg.B, alg.A))
        => alg.ab = alg.ba

\* the characters of value outside the ranges of both deletes, in order
RECURSIVE RemainingFrom(_, _, _, _)
RemainingFrom(value, i, operationA, operationB) ==
    IF i > Len(value) THEN <<>>
    ELSE LET inA == /\ operationA.position < i
                    /\ i <= operationA.position + operationA.length
             inB == /\ operationB.position < i
                    /\ i <= operationB.position + operationB.length
         IN (IF inA \/ inB THEN <<>> ELSE <<value[i]>>)
            \o RemainingFrom(value, i + 1, operationA, operationB)

Overlap(operationA, operationB) ==
    Min(operationA.position + operationA.length,
        operationB.position + operationB.length)
        - Max(operationA.position, operationB.position)

\* C28: for two overlapping deletes A and B, T(A, B) has position
\* min(aStart, bStart) and length |A| minus the overlap, and applying B then
\* T(A, B) leaves exactly the characters outside both ranges
C28_OverlappingDeletes ==
    (/\ alg.kind = "text" /\ alg.pc = "done"
     /\ isDeleteOperation(alg.A) /\ isDeleteOperation(alg.B)
     /\ Overlap(alg.A, alg.B) > 0)
        => LET transformed == transformTextOperation(alg.A, alg.B).operation
           IN /\ transformed.position = Min(alg.A.position, alg.B.position)
              /\ transformed.length = alg.A.length - Overlap(alg.A, alg.B)
              /\ alg.ba = RemainingFrom(alg.val, 1, alg.A, alg.B)

\* B covers the start of A only, so that T(A, B) moves and shrinks
C28_PartialOverlap ==
    /\ alg.kind = "text" /\ alg.pc = "done"
    /\ isDeleteOperation(alg.A) /\ isDeleteOperation(alg.B)
    /\ alg.B.position < alg.A.position
    /\ alg.A.position < alg.B.position + alg.B.length
    /\ alg.B.position + alg.B.length < alg.A.position + alg.A.length
    /\ alg.ba = RemainingFrom(alg.val, 1, alg.A, alg.B)

\* the whole range of list-delete A lies inside the range of list-delete B
CoveredBy(operationA, operationB) ==
    /\ isListDeleteOperation(operationA) /\ isListDeleteOperation(operationB)
    /\ operationB.index <= operationA.index
    /\ operationA.index + operationA.count
           <= operationB.index + operationB.count

\* C29: a list-delete A whose whole range was removed by a concurrent
\* list-delete B is transformed into an operation that SharedList.apply
\* applies without changing the list B left
C29_CoveredDeleteIsNoOp ==
    (/\ alg.kind = "list" /\ alg.pc = "done"
     /\ CoveredBy(alg.A, alg.B))
        => /\ transformListOperation(alg.A, alg.B).operation.count = 0
           /\ alg.ba = SharedListApply(alg.val, alg.B)

\* C30: a set and a concurrent delete of the same key converge: the replica
\* that applied the set then the transformed delete (the authority and the
\* setting client) and the replica that applied the delete then the
\* transformed set hold the same map, without the key
C30_SetDeleteConverges ==
    (/\ alg.kind = "map" /\ alg.pc = "done"
     /\ isMapSetOperation(alg.A) /\ isMapDeleteOperation(alg.B)
     /\ alg.A.key = alg.B.key)
        => /\ alg.ab = alg.ba
           /\ alg.A.key \notin DOMAIN alg.ba

\* C31: for every operation type of the data model the authority's value
\* after the operation equals the value of the shared type that applied it
C31_AuthorityAppliesAllTypes ==
    (alg.kind \in {"string", "array", "object"} /\ alg.pc = "done")
        => alg.ab = alg.ba

\* the position or index of the operation lies outside the value
BeyondValue(value, operation) ==
    IF isInsertOperation(operation) THEN operation.position > Len(value)
    ELSE IF isDeleteOperation(operation) THEN operation.position >= Len(value)
    ELSE IF isListInsertOperation(operation) THEN operation.index > Len(value)
    ELSE IF isListReplaceOperation(operation) THEN operation.index >= Len(value)
    ELSE \/ operation.index >= Len(value)
         \/ operation.targetIndex >= Len(value)

\* C32: apply of a shared type given an operation whose position or index is
\* outside the current value fails and leaves value and version unchanged
C32_ApplyRejectsOutOfRange ==
    [][\A operation \in RemoteTextOperations \cup RemoteListOperations :
          (/\ BeyondValue(alg.val, operation)
           /\ \/ alg.type = "text" /\ alg' = textApply(alg, operation)
              \/ alg.type = "list" /\ alg' = listApply(alg, operation))
              => /\ alg'.threw
                 /\ alg'.val = alg.val
                 /\ alg'.version = alg.version]_vars

\* C33: after CollabDocument.updateState(state, v) the version of the
\* underlying shared type is v
C33_SnapshotVersionReachesSharedType ==
    [][\A state \in SeqsUpTo(Chars, 1), v \in 0..MaxSnapshotVersion :
          session' = [session EXCEPT !["c1"] = updateState(@, state, v)]
              => session'["c1"].sharedVersion = v]_vars

\* C34: one call of a mutator on the shared type of a document opened with
\* a schema applies the operation to the local value once, appends one
\* entry to the pending buffer and, when connected, sends one OPERATION
C34_MutatorActsOnce ==
    [][session'["c1"].issued = session["c1"].issued + 1
          => /\ Len(session'["c1"].applied) = Len(session["c1"].applied) + 1
             /\ Len(session'["c1"].pendingOperations)
                    = Len(session["c1"].pendingOperations) + 1
             /\ session["c1"].connectionState = "connected"
                    => Len(inbox'["c1"]) = Len(inbox["c1"]) + 1]_vars

\* C36: applying a remote operation appends nothing to the pending buffer
\* and sends nothing, and the pending buffer holds only operations this
\* client generated
C36_RemoteOperationStaysLocal ==
    [][(/\ session'["c1"].issued = session["c1"].issued
        /\ Len(session'["c1"].applied) > Len(session["c1"].applied))
          => /\ session'["c1"].pendingOperations
                    = session["c1"].pendingOperations
             /\ inbox'["c1"] = inbox["c1"]
             /\ \A i \in 1..Len(session'["c1"].pendingOperations) :
                    session'["c1"].pendingOperations[i].clientId = "c1"]_vars

\* C35: for each shared type and all values old and new, applying the
\* operations of generateOperations(old, new) in order to old yields new
C35_GeneratedOperationsReproduce ==
    (alg.kind = "generate" /\ alg.pc = "done") => alg.result = alg.new

\* C37: a client that was sent a snapshot at version v is afterwards broadcast
\* only operations applied at a version greater than v: no operation whose
\* effect the snapshot already contains
C37_NoBroadcastBelowSnapshot ==
    \A c \in ClientIds :
        \A i \in 1..Len(outbox[c]) :
            \A j \in (i + 1)..Len(outbox[c]) :
                (/\ outbox[c][i].type = "document_joined"
                 /\ isBroadcast(outbox[c][j]))
                    => outbox[c][j].operation.baseVersion + 1
                           > outbox[c][i].version

\* C38: at most one DocumentState instance ever exists per document id, and
\* no client added to an instance is lost by a replacement: every client
\* the ClientManager holds for the document is in the clients of the
\* instance the DocumentManager holds
C38_OneInstancePerDocument ==
    \A d \in DOMAIN documents :
        /\ documents[d].instance = 1
        /\ MapHas(documentClients, d)
               => documentClients[d] \subseteq documents[d].clients

\* the documents in the registry record of the client, none if it has no record
RegistryDocuments(clientId) ==
    IF MapHas(clients, clientId) THEN connections[clients[clientId]].documents
    ELSE {}

\* C39: the three membership records agree: a client is in the
\* DocumentManager's client set of a document iff it is in the
\* ClientManager's document index iff the document is in the client's
\* registry record
C39_MembershipRecordsAgree ==
    \A clientId \in ClientIds \cup {"none"}, d \in DocumentIds :
        LET inDocument == MapHas(documents, d) /\ clientId \in documents[d].clients
            inIndex == MapHas(documentClients, d) /\ clientId \in documentClients[d]
            inRecord == d \in RegistryDocuments(clientId)
        IN (inDocument <=> inIndex) /\ (inIndex <=> inRecord)

\* C40: an AUTHENTICATE that re-declares a clientId registered to another
\* live connection leaves that connection registered under the clientId,
\* and the disconnection of one of the two does not unregister the other:
\* every live connection is the registered one of its clientId
C40_LiveConnectionStaysRegistered ==
    \A c \in ClientIds :
        connections[c].open
            => /\ MapHas(clients, connections[c].clientId)
               /\ clients[connections[c].clientId] = c

=============================================================================
